---------------------------- MODULE Spec2Model ----------------------------
(***************************************************************************)
(* A model of the tzar archiver: the record codec (writeString,            *)
(* writeBinaryData, readString, readBinaryData), the archive writer        *)
(* (simple_archiver), the archive reader (simple_unarchiver), the          *)
(* password digest and the XOR stream cipher, and the encrypted container  *)
(* wrapper (tzar_encrypt, tzar_decrypt).                                   *)
(*                                                                         *)
(* Bytes are the numbers 0..255, byte strings are sequences of bytes, and  *)
(* a file on disk is the sequence of its bytes.  A std::ifstream is the    *)
(* file's bytes together with a read position.                             *)
(***************************************************************************)
EXTENDS Integers, Sequences, FiniteSets, TLC

VARIABLES
    phase,              \* which program of the scenario runs next
    \* ---- xor_cipher called on its own
    data,               \* the argument `data` of xor_cipher
    key,                \* the argument `key` of xor_cipher
    output,             \* what the last call returned
    calls,              \* how many times xor_cipher was applied
    \* ---- the files
    records,            \* the (path, payload) pairs handed to the codec
    items,              \* itemsToArchive of simple_archiver
    written,            \* how many of records / items have been written
    tzar,               \* the bytes of the plain container (.tzar)
    cut,                \* -1, or the length the container was truncated to
    \* ---- the codec read back on its own
    c_pos,              \* read position in tzar
    c_decoded,          \* the pairs readString / readBinaryData returned
    c_err,              \* what() of the exception thrown, "" when none
    \* ---- simple_unarchiver
    extract_all,
    files_to_extract,
    u_pos,              \* read position of inputArchive
    u_fs,               \* the directory tree below the working directory
    extracted_count,
    skipped_count,
    u_exit,             \* exit status, -1 while running
    u_out,              \* what was printed, one entry per message
    \* ---- tzar_encrypt
    password,
    encryption_key,
    e_pos,              \* read position of inFile
    tzar2,              \* the bytes of the encrypted container (.tzar2)
    e_exit,
    \* ---- tzar_decrypt, run twice on the same container (runs 1 and 2)
    d_password,
    decryption_key,
    d_pos,
    d_fs,
    d_extracted,
    d_exit,
    d_out,
    \* ---- how the programs are called, and what they do to the disk
    argc,               \* argc of each program
    inputs,             \* argv[2..] of simple_archiver
    itemsToArchive,     \* the paths the first pass of simple_archiver collected
    itemBasePaths,      \* the base path the first pass gave each of them
    readdir_desc,       \* the order in which a directory lists its entries
    a_exit,             \* exit status of simple_archiver, -1 while running
    a_io,               \* the files simple_archiver opened, in order
    e_io,               \* the files tzar_encrypt opened, in order
    d_io,               \* the files tzar_decrypt opened or created, per run
    \* ---- the digest as a function that is called more than once
    static_H,           \* the array H of each program
    sha_calls,          \* the calls of sha256 so far: program, input, result
    \* ---- tzar_gui
    gui_disk,           \* the archive files the GUI can be pointed at
    file_list_store,    \* the rows of the list: path and size
    current_archive_is_encrypted,
    current_archive_path,
    gui_loads,          \* the calls of load_archive_contents so far
    gui_command         \* the last command tzar_gui ran with std::system

cipherVars == <<data, key, output, calls>>
fileVars   == <<records, items, written, tzar, cut>>
codecVars  == <<c_pos, c_decoded, c_err>>
unarVars   == <<extract_all, files_to_extract, u_pos, u_fs, extracted_count,
                skipped_count, u_exit, u_out>>
encVars    == <<password, encryption_key, e_pos, tzar2, e_exit>>
decVars    == <<d_password, decryption_key, d_pos, d_fs, d_extracted, d_exit, d_out>>
argVars    == <<argc, inputs, readdir_desc>>
collectVars == <<itemsToArchive, itemBasePaths>>
ioVars     == <<a_exit, a_io, e_io, d_io>>
shaVars    == <<static_H, sha_calls>>
guiVars    == <<gui_disk, file_list_store, current_archive_is_encrypted,
                current_archive_path, gui_loads, gui_command>>
libVars    == <<shaVars, guiVars>>
moreVars   == <<argVars, collectVars, ioVars, libVars>>
vars       == <<phase, cipherVars, fileVars, codecVars, unarVars, encVars, decVars,
                moreVars>>

---------------------------------------------------------------------------
(* Bounds of the model *)

MaxDataLen == 3         \* longest data handed to xor_cipher on its own
MaxKeyLen == 2          \* longest key handed to xor_cipher on its own

Byte == 0..255

\* the sequences over S of length at most n
SeqsUpTo(S, n) == UNION {[1..k -> S] : k \in 0..n}

---------------------------------------------------------------------------
(* Bit operations on bytes and on 32-bit words.  A uint32_t is kept as the *)
(* pair <<high 16 bits, low 16 bits>>, so that no intermediate value       *)
(* leaves the range of the checker's integers; all arithmetic is modulo    *)
(* 2^32 as in C++.                                                         *)

Pow2(n) == 2 ^ n

RECURSIVE BitOp(_, _, _, _)
BitOp(op, a, b, n) ==
    IF n = 0 THEN 0
    ELSE LET x == a % 2
             y == b % 2
             r == IF op = "xor" THEN (x + y) % 2 ELSE x * y
         IN  r + 2 * BitOp(op, a \div 2, b \div 2, n - 1)

\* a ^ b on two bytes (char ^ uint8_t, converted back to char)
ByteXor(a, b) == BitOp("xor", a, b, 8)

WXor(a, b) == <<BitOp("xor", a[1], b[1], 16), BitOp("xor", a[2], b[2], 16)>>
WAnd(a, b) == <<BitOp("and", a[1], b[1], 16), BitOp("and", a[2], b[2], 16)>>
WOr(a, b)  == WXor(WXor(a, b), WAnd(a, b))
WNot(a)    == <<65535 - a[1], 65535 - a[2]>>
WAdd(a, b) ==
    LET lo == a[2] + b[2]
        hi == a[1] + b[1] + (lo \div 65536)
    IN  <<hi % 65536, lo % 65536>>
\* x >> n and x << n on 32 bits, 0 < n < 32
WShr(a, n) ==
    IF n >= 16 THEN <<0, a[1] \div Pow2(n - 16)>>
    ELSE <<a[1] \div Pow2(n),
           (a[2] \div Pow2(n)) + (a[1] % Pow2(n)) * Pow2(16 - n)>>
WShl(a, n) ==
    IF n >= 16 THEN <<(a[2] % Pow2(32 - n)) * Pow2(n - 16), 0>>
    ELSE <<((a[1] % Pow2(16 - n)) * Pow2(n)) + (a[2] \div Pow2(16 - n)),
           (a[2] % Pow2(16 - n)) * Pow2(n)>>

---------------------------------------------------------------------------
(* The digest: sha256 of tzar_encrypt.cpp / tzar_decrypt.cpp (the two      *)
(* files hold the same text).                                              *)

ROTR(x, n) == WOr(WShr(x, n), WShl(x, 32 - n))
CH(x, y, z) == WXor(WAnd(x, y), WAnd(WNot(x), z))
MAJ(x, y, z) == WXor(WXor(WAnd(x, y), WAnd(x, z)), WAnd(y, z))
SIG0(x) == WXor(WXor(ROTR(x, 2), ROTR(x, 13)), ROTR(x, 22))
SIG1(x) == WXor(WXor(ROTR(x, 6), ROTR(x, 11)), ROTR(x, 25))
CAP_SIG0(x) == WXor(WXor(ROTR(x, 7), ROTR(x, 18)), WShr(x, 3))
CAP_SIG1(x) == WXor(WXor(ROTR(x, 17), ROTR(x, 19)), WShr(x, 10))

\* K[64], word for word as in the source (K[54] is 0x5b94ca4f there)
K ==
  <<
    <<17034, 12184>>, <<28983, 17553>>, <<46528, 64463>>, <<59829, 56229>>,
    <<14678, 49755>>, <<23025, 4593>>, <<37439, 33444>>, <<43804, 24277>>,
    <<55303, 43672>>, <<4739, 23297>>, <<9265, 34238>>, <<21772, 32195>>,
    <<29374, 23924>>, <<32990, 45566>>, <<39900, 1703>>, <<49563, 61812>>,
    <<58523, 27073>>, <<61374, 18310>>, <<4033, 40390>>, <<9228, 41420>>,
    <<11753, 11375>>, <<19060, 33962>>, <<23728, 43484>>, <<30457, 35034>>,
    <<38974, 20818>>, <<43057, 50797>>, <<45059, 10184>>, <<48985, 32711>>,
    <<50912, 3059>>, <<54695, 37191>>, <<1738, 25425>>, <<5161, 10599>>,
    <<10167, 2693>>, <<11803, 8504>>, <<19756, 28156>>, <<21304, 3347>>,
    <<25866, 29524>>, <<30314, 2747>>, <<33218, 51502>>, <<37490, 11397>>,
    <<41663, 59553>>, <<43034, 26187>>, <<49739, 35696>>, <<51052, 20899>>,
    <<53650, 59417>>, <<54937, 1572>>, <<62478, 13701>>, <<4202, 41072>>,
    <<6564, 49430>>, <<7735, 27656>>, <<10056, 30540>>, <<13488, 48309>>,
    <<14620, 3251>>, <<20184, 43594>>, <<23444, 51791>>, <<26670, 28659>>,
    <<29839, 33518>>, <<30885, 25455>>, <<33992, 30740>>, <<36039, 520>>,
    <<37054, 65530>>, <<42064, 27883>>, <<48889, 41975>>, <<50801, 30962>>
  >>

\* H[8], the initial hash values
H ==
  <<
    <<27145, 58983>>, <<47975, 44677>>, <<15470, 62322>>, <<42319, 62778>>,
    <<20750, 21119>>, <<39685, 26764>>, <<8067, 55723>>, <<23520, 52505>>
  >>

\* the message schedule W[16..63]; W holds W[0..i-2] (1-based: W[1..i-1])
RECURSIVE Schedule(_, _)
Schedule(W, i) ==
    IF i > 64 \/ Len(W) = 0 THEN W
    ELSE Schedule(Append(W, WAdd(WAdd(WAdd(CAP_SIG1(W[i - 2]), W[i - 7]),
                                      CAP_SIG0(W[i - 15])), W[i - 16])),
                  i + 1)

\* the 64 rounds on s = <<a, b, c, d, e, f, g, h>>
RECURSIVE Rounds(_, _, _)
Rounds(s, W, i) ==
    IF i > 64 \/ Len(s) = 0 THEN s
    ELSE LET a == s[1]
             b == s[2]
             c == s[3]
             d == s[4]
             e == s[5]
             f == s[6]
             g == s[7]
             h == s[8]
             T1 == WAdd(WAdd(WAdd(WAdd(h, SIG1(e)), CH(e, f, g)), K[i]), W[i])
             T2 == WAdd(SIG0(a), MAJ(a, b, c))
         IN  Rounds(<<WAdd(T1, T2), a, b, c, WAdd(d, T1), e, f, g>>, W, i + 1)

sha256_transform(state, block) ==
    LET W16 == [i \in 1..16 |->
                  <<block[4 * i - 3] * 256 + block[4 * i - 2],
                    block[4 * i - 1] * 256 + block[4 * i]>>]
        W == Schedule(W16, 17)
        r == Rounds(state, W, 1)
    IN  [i \in 1..8 |-> WAdd(state[i], r[i])]

\* zero bytes until the length is 56 mod 64
RECURSIVE ZeroPad(_)
ZeroPad(p) == IF Len(p) % 64 = 56 THEN p ELSE ZeroPad(Append(p, 0))

\* bit_len = size * 8 as 8 bytes, most significant first (size < 2^13 here)
BitLenBytes(n) ==
    <<0, 0, 0, 0, 0, ((n * 8) \div 65536) % 256, ((n * 8) \div 256) % 256,
      (n * 8) % 256>>

RECURSIVE Blocks(_, _, _)
Blocks(state, padded, i) ==
    IF i > Len(padded) \/ Len(state) = 0 THEN state
    ELSE Blocks(sha256_transform(state, SubSeq(padded, i, i + 63)), padded, i + 64)

\* sha256 when the array H holds h: state is a copy of it
sha256_from(h, bytes) ==
    LET padded == ZeroPad(Append(bytes, 128)) \o BitLenBytes(Len(bytes))
        state == Blocks(h, padded, 1)
    IN  [j \in 1..32 |->
           LET w == state[((j - 1) \div 4) + 1]
               k == (j - 1) % 4
           IN  IF k = 0 THEN w[1] \div 256
               ELSE IF k = 1 THEN w[1] % 256
               ELSE IF k = 2 THEN w[2] \div 256
               ELSE w[2] % 256]

sha256(bytes) == sha256_from(H, bytes)

---------------------------------------------------------------------------
(* The stream cipher *)

\* what a call is said to return when it divided by zero
SIGFPE == <<-1>>

\* xor_cipher with `+` in place of `^`
xor_cipher_add(d, k) ==
    IF Len(k) = 0 THEN d
    ELSE [i \in 1..Len(d) |-> (d[i] + k[((i - 1) % Len(k)) + 1]) % 256]

\* xor_cipher without its test for the empty key: i % key.size() divides by
\* zero as soon as the loop body runs
xor_cipher_noguard(d, k) ==
    IF Len(k) = 0 THEN (IF Len(d) = 0 THEN d ELSE SIGFPE)
    ELSE [i \in 1..Len(d) |-> ByteXor(d[i], k[((i - 1) % Len(k)) + 1])]

\* xor_cipher that meets the first byte of the data with the second of the key
xor_cipher_shifted(d, k) ==
    IF Len(k) = 0 THEN d
    ELSE [i \in 1..Len(d) |-> ByteXor(d[i], k[(i % Len(k)) + 1])]

\* output[i] = data[i] ^ key[i % key.size()], indices from 0 in the source
xor_cipher(d, k) ==
    IF Len(k) = 0 THEN d
    ELSE [i \in 1..Len(d) |-> ByteXor(d[i], k[((i - 1) % Len(k)) + 1])]

---------------------------------------------------------------------------
(* The record codec.  A length prefix is the host's integer, least          *)
(* significant byte first; a length of 2^24 or more is kept as "at least    *)
(* 2^24", which is more than any file of the model holds.                   *)

\* the w bytes of the unsigned integer n < 2^31, least significant first
LE(n, w) == [i \in 1..w |-> IF i > 4 THEN 0 ELSE (n \div Pow2(8 * (i - 1))) % 256]

\* LEValue reading the bytes most significant first
LEValue_be(bs) ==
    LET n == Len(bs)
    IN  IF \E i \in 1..(n - 3) : bs[i] # 0 THEN Pow2(24)
        ELSE bs[n] + 256 * bs[n - 1] + 65536 * bs[n - 2]

\* the unsigned integer held in the bytes bs (4 or 8 of them)
LEValue(bs) ==
    IF \E i \in 4..Len(bs) : bs[i] # 0 THEN Pow2(24)
    ELSE bs[1] + 256 * bs[2] + 65536 * bs[3]

\* writeString appends to the bytes of outFile
writeString(outFile, str) == outFile \o LE(Len(str), 4) \o str

writeBinaryData(outFile, bytes) == outFile \o LE(Len(bytes), 8) \o bytes

\* the test of the loop taken for inFile.eof(), which no read has set yet
\* when the read position has only just come to the end
AtEOF_unset(inFile, pos) == pos > Len(inFile)

\* inFile.peek() == EOF with the read position at pos (a position past the
\* end, which seekg can leave, reads as end of file too)
AtEOF(inFile, pos) == pos >= Len(inFile)

\* readString without the test of the stream after reading the characters
readString_nocheck(inFile, pos) ==
    IF pos + 4 > Len(inFile) THEN [err |-> "string length", pos |-> pos, str |-> <<>>]
    ELSE LET len == LEValue(SubSeq(inFile, pos + 1, pos + 4))
             end == IF pos + 4 + len > Len(inFile) THEN Len(inFile) ELSE pos + 4 + len
         IN  [err |-> "", pos |-> end, str |-> SubSeq(inFile, pos + 5, end)]

\* readString at position pos of inFile: err is "" or names what was being
\* read when std::runtime_error was thrown
readString(inFile, pos) ==
    IF pos + 4 > Len(inFile) THEN [err |-> "string length", pos |-> pos, str |-> <<>>]
    ELSE LET len == LEValue(SubSeq(inFile, pos + 1, pos + 4))
         IN  IF pos + 4 + len > Len(inFile)
             THEN [err |-> "string data", pos |-> pos, str |-> <<>>]
             ELSE [err |-> "", pos |-> pos + 4 + len,
                   str |-> SubSeq(inFile, pos + 5, pos + 4 + len)]

\* readBinaryData without the test of the stream after reading the size: a
\* size that could not be read counts as zero
readBinaryData_nosizecheck(inFile, pos, read_content) ==
    IF pos + 8 > Len(inFile) THEN [err |-> "", pos |-> Len(inFile), bytes |-> <<>>]
    ELSE LET size == LEValue(SubSeq(inFile, pos + 1, pos + 8))
         IN  IF read_content
             THEN IF size > 0 /\ pos + 8 + size > Len(inFile)
                  THEN [err |-> "binary data", pos |-> pos, bytes |-> <<>>]
                  ELSE [err |-> "", pos |-> pos + 8 + size,
                        bytes |-> SubSeq(inFile, pos + 9, pos + 8 + size)]
             ELSE [err |-> "", pos |-> pos + 8 + size, bytes |-> <<>>]

\* readBinaryData; with read_content false the payload is passed over by
\* seekg(size, cur), which on a file moves the position wherever it is told
\* to, also past the end of the file
readBinaryData(inFile, pos, read_content) ==
    IF pos + 8 > Len(inFile) THEN [err |-> "binary data size", pos |-> pos, bytes |-> <<>>]
    ELSE LET size == LEValue(SubSeq(inFile, pos + 1, pos + 8))
         IN  IF read_content
             THEN IF size > 0 /\ pos + 8 + size > Len(inFile)
                  THEN [err |-> "binary data", pos |-> pos, bytes |-> <<>>]
                  ELSE [err |-> "", pos |-> pos + 8 + size,
                        bytes |-> SubSeq(inFile, pos + 9, pos + 8 + size)]
             ELSE [err |-> "", pos |-> pos + 8 + size, bytes |-> <<>>]

\* one record read in full: the path, then the payload
ReadRecord(inFile, pos, read_content) ==
    LET rs == readString(inFile, pos)
        rb == readBinaryData(inFile, rs.pos, read_content)
    IN  IF rs.err # "" THEN [err |-> rs.err, pos |-> pos, path |-> <<>>, bytes |-> <<>>]
        ELSE [err |-> rb.err, pos |-> rb.pos, path |-> rs.str, bytes |-> rb.bytes]

\* the number of bytes a record takes in a container
RecLen(r) == 4 + Len(r.path) + 8 + Len(r.payload)

\* the offset at which the records after the first k begin
RECURSIVE Boundary(_, _)
Boundary(rs, k) == IF k = 0 THEN 0 ELSE Boundary(rs, k - 1) + RecLen(rs[k])

Boundaries(rs) == {Boundary(rs, k) : k \in 0..Len(rs)}

\* cut = -1: the container is as written; otherwise it holds its first cut bytes
CutInside == cut >= 0 /\ cut \notin Boundaries(records)

\* the number of records that lie whole before offset n
WholeBefore(rs, n) ==
    CHOOSE k \in 0..Len(rs) :
        /\ Boundary(rs, k) <= n
        /\ \A j \in 0..Len(rs) : Boundary(rs, j) <= n => j <= k

---------------------------------------------------------------------------
(* The directory tree.  A path string is split at '/' into its names.  A  *)
(* tree maps each existing place, a sequence of names as seen from the     *)
(* working directory <<>>, to what is there.  Where a name ".." occurs in  *)
(* a record path of the model, the directory before it exists.            *)

Slash == 47

Dir == [kind |-> "dir", bytes |-> <<>>]
File(bytes) == [kind |-> "file", bytes |-> bytes]

\* the tree that holds the working directory alone
EmptyTree == (<<>> :> Dir)

RECURSIVE Components(_)
Components(str) ==
    LET idx == {i \in 1..Len(str) : str[i] = Slash}
    IN  IF idx = {} THEN <<str>>
        ELSE LET i == CHOOSE j \in idx : \A m \in idx : j <= m
             IN  <<SubSeq(str, 1, i - 1)>> \o Components(SubSeq(str, i + 1, Len(str)))

has_parent_path(p) == Len(p) > 1
parent_path(p) == SubSeq(p, 1, Len(p) - 1)
exists(fs, p) == p \in DOMAIN fs
is_directory(fs, p) == p \in DOMAIN fs /\ fs[p].kind = "dir"

Prefixes(p) == {SubSeq(p, 1, k) : k \in 1..Len(p)}

\* fs::create_directories(p): ok is FALSE when it throws filesystem_error,
\* which it does, before creating anything, when p or one of its parents
\* exists and is not a directory
create_directories(fs, p) ==
    IF \E q \in Prefixes(p) : q \in DOMAIN fs /\ fs[q].kind # "dir"
    THEN [ok |-> FALSE, fs |-> fs]
    ELSE [ok |-> TRUE,
          fs |-> [q \in DOMAIN fs \cup Prefixes(p) |->
                    IF q \in DOMAIN fs THEN fs[q] ELSE Dir]]

\* std::ofstream(p, binary).is_open(): the file can be created or truncated
can_open_for_write(fs, p) ==
    /\ Len(p) > 0
    /\ is_directory(fs, parent_path(p))
    /\ ~ is_directory(fs, p)

\* Materialize with the test on the payload turned round
Materialize_swapped(fs, outputPath, fileContent) ==
    LET cd == IF has_parent_path(outputPath)
              THEN create_directories(fs, parent_path(outputPath))
              ELSE [ok |-> TRUE, fs |-> fs]
    IN  IF ~cd.ok THEN [res |-> "throw", fs |-> fs]
        ELSE IF Len(fileContent) # 0
        THEN IF exists(cd.fs, outputPath)
             THEN IF is_directory(cd.fs, outputPath)
                  THEN [res |-> "dir exists", fs |-> cd.fs]
                  ELSE [res |-> "warn dir", fs |-> cd.fs]
             ELSE [res |-> "dir", fs |-> create_directories(cd.fs, outputPath).fs]
        ELSE IF ~can_open_for_write(cd.fs, outputPath)
             THEN [res |-> "warn file", fs |-> cd.fs]
             ELSE [res |-> "file",
                   fs |-> [q \in DOMAIN cd.fs \cup {outputPath} |->
                             IF q = outputPath THEN File(fileContent) ELSE cd.fs[q]]]

\* what the loop body of simple_unarchiver / tzar_decrypt does with a record
\* it extracts, once the record is read: res is
\*   "throw"       create_directories threw (caught in main: exit 1)
\*   "dir"         the directory was created          (counted)
\*   "dir exists"  the directory was there already    (counted)
\*   "file"        the file was written               (counted)
\*   "warn dir"    a file has the directory's name    (warning, continue)
\*   "warn file"   the output file cannot be opened   (warning, continue)
Materialize(fs, outputPath, fileContent) ==
    LET cd == IF has_parent_path(outputPath)
              THEN create_directories(fs, parent_path(outputPath))
              ELSE [ok |-> TRUE, fs |-> fs]
    IN  IF ~cd.ok THEN [res |-> "throw", fs |-> fs]
        ELSE IF Len(fileContent) = 0
        THEN IF exists(cd.fs, outputPath)
             THEN IF is_directory(cd.fs, outputPath)
                  THEN [res |-> "dir exists", fs |-> cd.fs]
                  ELSE [res |-> "warn dir", fs |-> cd.fs]
             ELSE [res |-> "dir", fs |-> create_directories(cd.fs, outputPath).fs]
        ELSE IF ~can_open_for_write(cd.fs, outputPath)
             THEN [res |-> "warn file", fs |-> cd.fs]
             ELSE [res |-> "file",
                   fs |-> [q \in DOMAIN cd.fs \cup {outputPath} |->
                             IF q = outputPath THEN File(fileContent) ELSE cd.fs[q]]]

Counted(res) == res \in {"dir", "dir exists", "file"}

\* outputPath without the directory it is to lie in
outputPath_nobase(base, name) == Components(name)

\* the names "." and ".."; the root directory is the empty name, which a
\* path that begins with '/' has for its first name
ThisDir == <<46>>
ParentDir == <<46, 46>>
RootDir == <<>>

\* where the names lead from the place at: a place outside the working
\* directory begins with ".." names, or with the empty name when it is
\* reached from the root
RECURSIVE Resolved(_, _)
Resolved(at, names) ==
    IF names = <<>> THEN at
    ELSE LET name == Head(names)
             next == IF name = RootDir \/ name = ThisDir THEN at
                     ELSE IF name # ParentDir THEN Append(at, name)
                     ELSE IF at = <<RootDir>> THEN at
                     ELSE IF at = <<>> \/ at[Len(at)] = ParentDir THEN Append(at, name)
                     ELSE SubSeq(at, 1, Len(at) - 1)
         IN  Resolved(next, Tail(names))

is_absolute(names) == Len(names) > 1 /\ Head(names) = RootDir

\* the working directory with the directory above it and the root
Surroundings == (<<>> :> Dir) @@ (<<ParentDir>> :> Dir) @@ (<<RootDir>> :> Dir)

\* the path a record is extracted to: fs::path(relativePathStr) below the
\* working directory in simple_unarchiver, output_base_path / filename in
\* tzar_decrypt; an absolute filename takes the place of the base
outputPath(base, name) ==
    IF is_absolute(Components(name)) THEN Resolved(<<RootDir>>, Components(name))
    ELSE Resolved(base, Components(name))

---------------------------------------------------------------------------
(* xor_cipher on its own: applied to its own output, up to twice *)

MaxCalls == 2

DataBytes == {0, 65, 255}
KeyBytes == {1, 128}

IdleCipher == data = <<>> /\ key = <<>> /\ output = <<>> /\ calls = 0

IdleFiles == records = <<>> /\ items = <<>> /\ written = 0 /\ tzar = <<>> /\ cut = -1

IdleCodec == c_pos = 0 /\ c_decoded = <<>> /\ c_err = ""

IdleUnar ==
    /\ extract_all = TRUE /\ files_to_extract = {} /\ u_pos = 0
    /\ u_fs = EmptyTree /\ extracted_count = 0 /\ skipped_count = 0
    /\ u_exit = -1 /\ u_out = <<>>

IdleEnc ==
    /\ password = <<>> /\ encryption_key = <<>> /\ e_pos = 0 /\ tzar2 = <<>>
    /\ e_exit = -1

Runs == {1, 2}

IdleDec ==
    /\ d_password = [r \in Runs |-> <<>>]
    /\ decryption_key = [r \in Runs |-> <<>>]
    /\ d_pos = [r \in Runs |-> 0]
    /\ d_fs = [r \in Runs |-> EmptyTree]
    /\ d_extracted = [r \in Runs |-> 0]
    /\ d_exit = [r \in Runs |-> -1]
    /\ d_out = [r \in Runs |-> <<>>]

\* the programs of the model and the least argc each accepts
Tools == {"simple_archiver", "simple_unarchiver", "tzar_encrypt", "tzar_decrypt"}

\* the usage test that lets every argc pass
MinArgc_none(tool) == 0

MinArgc(tool) ==
    CASE tool = "simple_archiver" -> 3
      [] tool = "simple_unarchiver" -> 2
      [] tool = "tzar_encrypt" -> 3
      [] tool = "tzar_decrypt" -> 2

\* every program is called with the arguments it needs
EnoughArgs == [tool \in Tools |-> MinArgc(tool)]

IdleArgs == argc = EnoughArgs /\ inputs = <<>> /\ readdir_desc = FALSE

IdleIo ==
    /\ a_exit = -1 /\ a_io = <<>> /\ e_io = <<>>
    /\ d_io = [r \in Runs |-> <<>>]

IdleCollect == itemsToArchive = <<>> /\ itemBasePaths = <<>>

Programs == {"tzar_encrypt", "tzar_decrypt"}

IdleSha == static_H = [p \in Programs |-> H] /\ sha_calls = <<>>

\* a command line of tzar_gui: the tool, the archive and the paths named
Command(tool, archive, names) == [tool |-> tool, archive |-> archive, names |-> names]

NoCommand == Command("", "", {})

\* tzar_gui after activate(), with no archive file at hand
IdleGui ==
    /\ gui_disk = <<>>
    /\ file_list_store = <<>>
    /\ current_archive_is_encrypted = FALSE
    /\ current_archive_path = ""
    /\ gui_loads = <<>>
    /\ gui_command = NoCommand

IdleMore == IdleArgs /\ IdleCollect /\ IdleIo /\ IdleSha /\ IdleGui

InitCipher ==
    /\ phase = "cipher"
    /\ data \in SeqsUpTo(DataBytes, MaxDataLen)
    /\ key \in SeqsUpTo(KeyBytes, MaxKeyLen)
    /\ output = data /\ calls = 0
    /\ IdleFiles /\ IdleCodec /\ IdleUnar /\ IdleEnc /\ IdleDec /\ IdleMore

ApplyCipher ==
    /\ phase = "cipher"
    /\ calls < MaxCalls
    /\ output' = xor_cipher(output, key)
    /\ calls' = calls + 1
    /\ UNCHANGED <<moreVars, phase, data, key, fileVars, codecVars, unarVars, encVars, decVars>>

NextCipher == ApplyCipher

SpecCipher == InitCipher /\ [][NextCipher]_vars

\* the byte of the key that position i (from 1) of the data meets
KeyAt(k, i) == k[((i - 1) % Len(k)) + 1]

\* C3: with a non-empty key, xor_cipher keeps the length of its input, its
\* output is byte by byte data[i] XOR key[i mod |key|], and applying it to
\* its own output gives the data back.
C3_SelfInverse ==
    key # <<>> =>
        /\ Len(output) = Len(data)
        /\ calls % 2 = 1 =>
              \A i \in 1..Len(data) : output[i] = ByteXor(data[i], KeyAt(key, i))
        /\ calls % 2 = 0 => output = data

C3_Witness ==
    /\ key # <<>> /\ calls = 2
    /\ Len(data) > Len(key)
    /\ output = data
    /\ xor_cipher(data, key) # data

\* C4: with the empty key xor_cipher returns its input as it is, and it does
\* not divide by the length of the key.
C4_EmptyKey ==
    (key = <<>> /\ calls >= 1) => (output = data /\ output # SIGFPE)

C4_Witness ==
    /\ key = <<>> /\ calls >= 1
    /\ Len(data) = MaxDataLen
    /\ output = data

---------------------------------------------------------------------------
(* The codec on its own: records are written with writeString and          *)
(* writeBinaryData, the file is closed, whole or cut short, and read back   *)
(* with readString and readBinaryData until peek() meets the end.           *)

MaxPathLen == 1
MaxPayloadLen == 2
MaxRecords == 2

\* the path and the payload of the given lengths
PathOf(n) == [j \in 1..n |-> 96 + j]
PayloadOf(n) == [j \in 1..n |-> IF j = 1 THEN 255 ELSE (j - 2) % 256]

InitCodec ==
    /\ phase = "write"
    /\ IdleCipher /\ IdleFiles /\ IdleCodec /\ IdleUnar /\ IdleEnc /\ IdleDec /\ IdleMore

CodecWrite(str, bytes) ==
    /\ phase = "write"
    /\ Len(records) < MaxRecords
    /\ records' = Append(records, [path |-> str, payload |-> bytes])
    /\ tzar' = writeBinaryData(writeString(tzar, str), bytes)
    /\ written' = written + 1
    /\ UNCHANGED <<moreVars, phase, items, cut, cipherVars, codecVars, unarVars, encVars, decVars>>

CodecClose ==
    /\ phase = "write"
    /\ phase' = "read"
    /\ UNCHANGED <<moreVars, cipherVars, fileVars, codecVars, unarVars, encVars, decVars>>

\* the file loses everything after its first n bytes
CodecTruncate(n) ==
    /\ phase = "write"
    /\ n < Len(tzar)
    /\ tzar' = SubSeq(tzar, 1, n)
    /\ cut' = n
    /\ phase' = "read"
    /\ UNCHANGED <<moreVars, records, items, written, cipherVars, codecVars, unarVars, encVars, decVars>>

CodecRead ==
    /\ phase = "read"
    /\ ~ AtEOF(tzar, c_pos)
    /\ LET r == ReadRecord(tzar, c_pos, TRUE)
       IN  IF r.err # ""
           THEN /\ c_err' = r.err
                /\ phase' = "done"
                /\ UNCHANGED <<c_pos, c_decoded>>
           ELSE /\ c_decoded' = Append(c_decoded, [path |-> r.path, payload |-> r.bytes])
                /\ c_pos' = r.pos
                /\ UNCHANGED <<c_err, phase>>
    /\ UNCHANGED <<moreVars, cipherVars, fileVars, unarVars, encVars, decVars>>

CodecEOF ==
    /\ phase = "read"
    /\ AtEOF(tzar, c_pos)
    /\ phase' = "done"
    /\ UNCHANGED <<moreVars, cipherVars, fileVars, codecVars, unarVars, encVars, decVars>>

NextCodec ==
    \/ \E n \in 0..MaxPathLen, m \in 0..MaxPayloadLen : CodecWrite(PathOf(n), PayloadOf(m))
    \/ CodecClose
    \/ \E n \in 0..(Len(tzar) - 1) : CodecTruncate(n)
    \/ CodecRead
    \/ CodecEOF

SpecCodec == InitCodec /\ [][NextCodec]_vars

\* C1: a file that was written record by record and closed whole reads back
\* without an error as the records that were written, in their order.
C1_RoundTrip ==
    (phase = "done" /\ cut = -1) => (c_err = "" /\ c_decoded = records)

C1_Witness ==
    /\ phase = "done" /\ cut = -1
    /\ Len(records) = MaxRecords
    /\ c_decoded = records
    /\ \E i \in 1..Len(records) : Len(records[i].path) > 0 /\ Len(records[i].payload) > 1
    /\ \E i \in 1..Len(records) : Len(records[i].payload) = 0

\* where a cut at offset n falls: in the path length, the path, the payload
\* length or the payload of the first record that is not whole
CutRegion(rs, n) ==
    LET k == WholeBefore(rs, n)
        off == n - Boundary(rs, k)
        plen == Len(rs[k + 1].path)
    IN  IF off < 4 THEN "string length"
        ELSE IF off < 4 + plen THEN "string data"
        ELSE IF off < 4 + plen + 8 THEN "binary data size"
        ELSE "binary data"

\* C5: when the file ends inside a record, reading that record in full
\* throws, from the read that the end falls in (path length, path, payload
\* length or payload), and only the records that lie whole before the end
\* have been returned.
C5_FullDecodeDetectsTruncation ==
    (phase = "done" /\ CutInside) =>
        /\ c_err = CutRegion(records, cut)
        /\ c_decoded = SubSeq(records, 1, WholeBefore(records, cut))

C5_Witness ==
    /\ phase = "done" /\ CutInside
    /\ c_err = "binary data"
    /\ Len(c_decoded) = 1

---------------------------------------------------------------------------
(* simple_archiver.  itemsToArchive is what the first pass of main         *)
(* collected; an item carries the path fs::relative gives it (rel), what   *)
(* it is on disk, its bytes, and whether it can be opened and read.        *)

MaxItems == 3

Item(rel, kind, bytes, readable) ==
    [rel |-> rel, kind |-> kind, bytes |-> bytes, readable |-> readable]

\* the names "a", "b", "d", "d/a", "e", "u" and "z"
pa == <<97>>
pb == <<98>>
pd == <<100>>
pda == <<100, 47, 97>>
pe == <<101>>
pu == <<117>>
pz == <<122>>

FileA == Item(pa, "file", <<65, 65, 65>>, TRUE)
FileB == Item(pb, "file", <<66, 66>>, TRUE)
DirD == Item(pd, "dir", <<>>, TRUE)
FileDA == Item(pda, "file", <<88>>, TRUE)
\* a file and a directory that carry the name of another input: the inputs
\* x/d and y/a of one run give records "d" and "a" like the inputs d and a
FileD == Item(pd, "file", <<89, 89>>, TRUE)
DirA == Item(pa, "dir", <<>>, TRUE)
\* an empty regular file, and a file that cannot be opened
EmptyE == Item(pe, "file", <<>>, TRUE)
FileU == Item(pu, "file", <<85>>, FALSE)

\* what the first pass of main can leave in itemsToArchive: the file a of the
\* directory d is collected after d itself
Collected(its) ==
    \A i \in 1..Len(its) : its[i] = FileDA => \E j \in 1..(i - 1) : its[j] = DirD

\* whether archiveItem writes a record for the item
Emits(item) ==
    \/ item.kind = "file" /\ item.readable
    \/ item.kind = "dir"

\* the record archiveItem writes for an item it does not skip
RecordOf(item) ==
    [path |-> item.rel, payload |-> IF item.kind = "file" THEN item.bytes ELSE <<>>]

\* archiveItem writing the path of a file before it finds it cannot open it
archiveItem_partial(outputArchive, item) ==
    IF item.kind = "file"
    THEN IF ~item.readable THEN writeString(outputArchive, item.rel)
         ELSE writeBinaryData(writeString(outputArchive, item.rel), item.bytes)
    ELSE IF item.kind = "dir"
    THEN writeBinaryData(writeString(outputArchive, item.rel), <<>>)
    ELSE outputArchive

\* the bytes of outputArchive after archiveItem
archiveItem(outputArchive, item) ==
    IF item.kind = "file"
    THEN IF ~item.readable THEN outputArchive
         ELSE writeBinaryData(writeString(outputArchive, item.rel), item.bytes)
    ELSE IF item.kind = "dir"
    THEN writeBinaryData(writeString(outputArchive, item.rel), <<>>)
    ELSE outputArchive

---------------------------------------------------------------------------
(* The first pass of main of simple_archiver.  World is the disk it walks: *)
(* the working directory /w holds the file b, the directory d with its     *)
(* file a, the socket s and the file u that cannot be opened.  A path of   *)
(* the disk is the sequence of its names from the root; an input path is   *)
(* the string the user wrote, relative to the working directory.           *)

MaxInputs == 2

Dot == 46
pw == <<119>>
ps == <<115>>
pm == <<109>>
pdot == <<Dot>>
pdotdot == <<Dot, Dot>>
pdslash == <<100, Slash>>

Node(kind, bytes, readable) == [kind |-> kind, bytes |-> bytes, readable |-> readable]

World ==
    (<<>> :> Node("dir", <<>>, TRUE))
    @@ (<<pw>> :> Node("dir", <<>>, TRUE))
    @@ (<<pw, pb>> :> Node("file", <<66, 66>>, TRUE))
    @@ (<<pw, pd>> :> Node("dir", <<>>, TRUE))
    @@ (<<pw, pd, pa>> :> Node("file", <<88>>, TRUE))
    @@ (<<pw, ps>> :> Node("other", <<>>, TRUE))
    @@ (<<pw, pu>> :> Node("file", <<85>>, FALSE))

current_path == <<pw>>

\* where no file is
Nowhere == <<<<-1>>>>

\* the file the elements of a path lead to from the directory at; a path that
\* goes through something that is not a directory leads nowhere
RECURSIVE Walk(_, _)
Walk(at, elems) ==
    IF elems = <<>> THEN at
    ELSE IF at = Nowhere \/ World[at].kind # "dir" THEN Nowhere
    ELSE LET e == Head(elems)
             next == IF e = <<>> \/ e = pdot THEN at
                     ELSE IF e = pdotdot
                     THEN (IF at = <<>> THEN at ELSE SubSeq(at, 1, Len(at) - 1))
                     ELSE IF Append(at, e) \in DOMAIN World THEN Append(at, e)
                     ELSE Nowhere
         IN  Walk(next, Tail(elems))

\* fs::canonical of a path given by its elements
canonical(elems) == Walk(current_path, elems)

\* the last element of a path: empty after a trailing separator
filename(str) == LET elems == Components(str) IN elems[Len(elems)]

\* the string of a path given by its elements
RECURSIVE Join(_)
Join(elems) ==
    IF Len(elems) = 0 THEN <<>>
    ELSE IF Len(elems) = 1 THEN elems[1]
    ELSE elems[1] \o <<Slash>> \o Join(Tail(elems))

\* path::lexically_relative of two canonical paths
lexically_relative(p, base) ==
    LET same == {n \in 0..Len(p) : n <= Len(base) /\ SubSeq(p, 1, n) = SubSeq(base, 1, n)}
        n == CHOOSE m \in same : \A k \in same : k <= m
    IN  IF n = Len(p) /\ n = Len(base) THEN <<pdot>>
        ELSE [i \in 1..(Len(base) - n) |-> pdotdot] \o SubSeq(p, n + 1, Len(p))

\* relativePath of archiveItem with the name of the item never substituted
relativePath_nosubst(itemPath, basePath) ==
    Join(lexically_relative(canonical(Components(itemPath)), basePath))

\* relativePath of archiveItem: fs::relative, or the name of the item
relativePath(itemPath, basePath) ==
    LET relative == Join(lexically_relative(canonical(Components(itemPath)), basePath))
    IN  IF relative = <<>> \/ relative = pdot THEN filename(itemPath) ELSE relative

\* operator/ of fs::path
Slashed(p, name) ==
    IF Len(p) > 0 /\ p[Len(p)] = Slash THEN p \o name ELSE p \o <<Slash>> \o name

\* the names in a directory, in the order the directory lists them
RECURSIVE Listing(_, _)
Listing(names, desc) ==
    IF names = {} THEN <<>>
    ELSE LET n == CHOOSE x \in names :
                    \A y \in names : IF desc THEN y[1] <= x[1] ELSE x[1] <= y[1]
         IN  <<n>> \o Listing(names \ {n}, desc)

ChildNames(at) ==
    {q[Len(q)] : q \in {c \in DOMAIN World : Len(c) = Len(at) + 1 /\ SubSeq(c, 1, Len(at)) = at}}

\* the entries fs::recursive_directory_iterator(p) gives for the names left
\* to list in the directory at
RECURSIVE Entries(_, _, _, _)
Entries(p, at, names, desc) ==
    IF names = <<>> THEN <<>>
    ELSE LET child == Append(at, Head(names))
             entry == Slashed(p, Head(names))
         IN  <<entry>>
             \o (IF World[child].kind = "dir"
                 THEN Entries(entry, child, Listing(ChildNames(child), desc), desc)
                 ELSE <<>>)
             \o Entries(p, at, Tail(names), desc)

Range(f) == {f[i] : i \in DOMAIN f}

\* what the first pass would collect if it took every existing input
collect_any(inputPath, at, desc) ==
    IF World[at].kind = "dir"
    THEN <<inputPath>> \o Entries(inputPath, at, Listing(ChildNames(at), desc), desc)
    ELSE <<inputPath>>

\* what the first pass collects for an existing input: a regular file, a
\* directory followed by all that is below it, or nothing
collect(inputPath, at, desc) ==
    IF World[at].kind = "file" THEN <<inputPath>>
    ELSE IF World[at].kind = "dir"
    THEN <<inputPath>> \o Entries(inputPath, at, Listing(ChildNames(at), desc), desc)
    ELSE <<>>

\* itemsToArchive (list) and itemBasePaths (base) after the first k inputs
RECURSIVE FirstPass(_, _, _)
FirstPass(ins, k, desc) ==
    IF k = 0 THEN [list |-> <<>>, base |-> <<>>]
    ELSE LET prev == FirstPass(ins, k - 1, desc)
             inputPath == ins[k]
             at == canonical(Components(inputPath))
         IN  IF at = Nowhere THEN prev
             ELSE LET basePath ==
                          IF has_parent_path(Components(inputPath))
                          THEN canonical(parent_path(Components(inputPath)))
                          ELSE current_path
                      found == collect(inputPath, at, desc)
                  IN  [list |-> prev.list \o found,
                       base |-> [q \in (DOMAIN prev.base) \cup Range(found) |->
                                    IF q \in Range(found) THEN basePath ELSE prev.base[q]]]

\* the item of the emit loop for a collected path
ItemAt(itemPath, basePath) ==
    LET node == World[canonical(Components(itemPath))]
    IN  Item(relativePath(itemPath, basePath), node.kind, node.bytes, node.readable)

\* main of simple_archiver up to the end of the first pass
ArchiveStart ==
    /\ phase = "collect"
    /\ IF argc["simple_archiver"] < MinArgc("simple_archiver")
       THEN /\ a_exit' = 1
            /\ phase' = "done"
            /\ UNCHANGED <<items, collectVars>>
       ELSE LET pass == FirstPass(inputs, Len(inputs), readdir_desc)
            IN  /\ itemsToArchive' = pass.list
                /\ itemBasePaths' = pass.base
                /\ items' = [i \in 1..Len(pass.list) |->
                                ItemAt(pass.list[i], pass.base[pass.list[i]])]
                /\ phase' = "archive"
                /\ UNCHANGED a_exit
    /\ UNCHANGED <<records, written, tzar, cut>>
    /\ UNCHANGED <<libVars, argVars, a_io, e_io, d_io>>
    /\ UNCHANGED <<cipherVars, codecVars, unarVars, encVars, decVars>>

\* one turn of the loop over itemsToArchive; outputArchive is opened before
\* the first turn
ArchiveItem ==
    /\ phase = "archive"
    /\ written < Len(items)
    /\ LET item == items[written + 1]
       IN  /\ tzar' = archiveItem(tzar, item)
           /\ records' = IF Emits(item) THEN Append(records, RecordOf(item)) ELSE records
    /\ written' = written + 1
    /\ a_io' = IF written = 0 THEN Append(a_io, "create output") ELSE a_io
    /\ UNCHANGED <<libVars, argVars, collectVars, a_exit, e_io, d_io>>
    /\ UNCHANGED <<phase, items, cut, cipherVars, codecVars, unarVars, encVars, decVars>>

\* outputArchive.close() after the last item
ArchiveClose ==
    /\ phase = "archive"
    /\ Len(items) > 0
    /\ written = Len(items)
    /\ phase' = "ready"
    /\ a_exit' = 0
    /\ UNCHANGED <<libVars, argVars, collectVars, a_io, e_io, d_io>>
    /\ UNCHANGED <<cipherVars, fileVars, codecVars, unarVars, encVars, decVars>>

\* itemsToArchive.empty(): main returns 0 and no container is created
ArchiveNothing ==
    /\ phase = "archive"
    /\ Len(items) = 0
    /\ phase' = "done"
    /\ a_exit' = 0
    /\ UNCHANGED <<libVars, argVars, collectVars, a_io, e_io, d_io>>
    /\ UNCHANGED <<cipherVars, fileVars, codecVars, unarVars, encVars, decVars>>

\* the inputs "d", "d/", "d/a", "b", ".", "..", "s", "u", and "m", which
\* does not exist
InputPaths == {pd, pdslash, pda, pb, pdot, pdotdot, ps, pu, pm}

\* simple_archiver is called with the inputs, or with no argument at all
InitWriter ==
    /\ phase = "collect"
    /\ inputs \in SeqsUpTo(InputPaths, MaxInputs)
    /\ \E n \in {1, 2 + Len(inputs)} :
           /\ n = 1 => inputs = <<>>
           /\ argc = [EnoughArgs EXCEPT !["simple_archiver"] = n]
    /\ readdir_desc \in BOOLEAN
    /\ IdleCollect /\ IdleIo /\ IdleSha /\ IdleGui
    /\ IdleCipher /\ IdleFiles /\ IdleCodec /\ IdleUnar /\ IdleEnc /\ IdleDec

NextWriter ==
    \/ ArchiveStart
    \/ ArchiveItem
    \/ ArchiveClose
    \/ ArchiveNothing

SpecWriter == InitWriter /\ [][NextWriter]_vars

\* what the input path is on the disk: "missing" when it does not exist
KindOf(inputPath) ==
    LET at == canonical(Components(inputPath))
    IN  IF at = Nowhere THEN "missing" ELSE World[at].kind

NothingToCollect ==
    /\ Len(inputs) > 0
    /\ \A i \in 1..Len(inputs) : KindOf(inputs[i]) \notin {"file", "dir"}

\* C13: when every input path is missing or is neither a regular file nor a
\* directory, simple_archiver never opens or creates the output container,
\* writes nothing, and exits with status 0.
C13_NothingCollected ==
    (phase # "collect" /\ NothingToCollect) =>
        /\ items = <<>>
        /\ a_io = <<>> /\ tzar = <<>> /\ written = 0
        /\ phase \in {"archive", "done"}
        /\ phase = "done" => a_exit = 0

C13_Witness ==
    /\ phase = "done" /\ inputs = <<pm, ps>>
    /\ a_exit = 0 /\ a_io = <<>> /\ tzar = <<>>

\* C15: every record simple_archiver emits has a path that is relative,
\* not empty and not ".", whatever existing input paths it is given.
C15_RecordPathsProper ==
    \A i \in 1..Len(records) :
        /\ records[i].path # <<>>
        /\ records[i].path # pdot
        /\ records[i].path[1] # Slash

\* the paths the entries of the first k inputs get when every entry keeps
\* the base of the input it was collected under
RECURSIVE InheritedPaths(_, _, _)
InheritedPaths(ins, k, desc) ==
    IF k = 0 THEN <<>>
    ELSE LET inputPath == ins[k]
             at == canonical(Components(inputPath))
         IN  IF at = Nowhere THEN InheritedPaths(ins, k - 1, desc)
             ELSE LET basePath ==
                          IF has_parent_path(Components(inputPath))
                          THEN canonical(parent_path(Components(inputPath)))
                          ELSE current_path
                      found == collect(inputPath, at, desc)
                  IN  InheritedPaths(ins, k - 1, desc)
                      \o [i \in 1..Len(found) |-> relativePath(found[i], basePath)]

\* C21: every collected entry is archived under the path relative to the
\* base of the input it was collected under (for a descendant of a
\* directory input, the parent of that directory); a later input never
\* changes the base of an entry collected under an earlier one.
C21_BaseInheritance ==
    (phase \in {"archive", "ready"} /\ Len(inputs) > 0) =>
        [i \in 1..Len(items) |-> items[i].rel]
            = InheritedPaths(inputs, Len(inputs), readdir_desc)

\* the bytes of the first k of the records rs, one whole record after another
RECURSIVE PlainLayout(_, _)
PlainLayout(rs, k) ==
    IF k = 0 THEN <<>>
    ELSE PlainLayout(rs, k - 1)
            \o LE(Len(rs[k].path), 4) \o rs[k].path
            \o LE(Len(rs[k].payload), 8) \o rs[k].payload

Unreadable(item) == item.kind = "file" /\ ~item.readable
Readable(item) == ~Unreadable(item)
Unsupported(item) == item.kind \notin {"file", "dir"}
Archivable(item) == ~Unreadable(item) /\ ~Unsupported(item)

\* the record of each of the items
RecordsOf(its) == [i \in 1..Len(its) |-> RecordOf(its[i])]

\* the items were all turned over, whole records were written, and the
\* archiver exited with status 0
WholeRecordsWritten ==
    /\ written = Len(items) /\ Len(items) = Len(itemsToArchive)
    /\ tzar = PlainLayout(records, Len(records))
    /\ a_exit = 0 /\ a_io = <<"create output">>

Truncate(n) ==
    /\ phase = "ready"
    /\ cut = -1
    /\ n < Len(tzar)
    /\ tzar' = SubSeq(tzar, 1, n)
    /\ cut' = n
    /\ UNCHANGED <<moreVars, phase, records, items, written, cipherVars, codecVars, unarVars,
                   encVars, decVars>>

---------------------------------------------------------------------------
(* simple_unarchiver, run in an empty working directory *)

Msg(msg, path, what) == [msg |-> msg, path |-> path, what |-> what]

\* what is printed for a record after Materialize
MsgOf(res) ==
    CASE res = "dir" -> "Extracted directory"
      [] res = "dir exists" -> "Directory already exists"
      [] res = "file" -> "Extracted file"
      [] res = "warn dir" -> "Warning: Cannot create directory"
      [] res = "warn file" -> "Warning: Could not create output file"
      [] OTHER -> "filesystem error"

\* should_extract_current_item with the test of the selection left out
should_extract_always(all, selection, relativePathStr) == TRUE

should_extract_current_item(all, selection, relativePathStr) ==
    all \/ relativePathStr \in selection

\* main up to the loop: the names after the archive's are the selection
UnarchiveStart(selection) ==
    /\ phase = "ready"
    /\ IF argc["simple_unarchiver"] < MinArgc("simple_unarchiver")
       THEN /\ u_exit' = 1
            /\ phase' = "done"
            /\ UNCHANGED <<extract_all, files_to_extract, u_pos>>
       ELSE /\ phase' = "unarchive"
            /\ extract_all' = (selection = {})
            /\ files_to_extract' = selection
            /\ u_pos' = 0
            /\ UNCHANGED u_exit
    /\ UNCHANGED <<u_fs, extracted_count, skipped_count, u_out>>
    /\ UNCHANGED <<moreVars, cipherVars, fileVars, codecVars, encVars, decVars>>

\* one turn of the loop, or the handler of what it throws
UnarchiveStep ==
    /\ phase = "unarchive"
    /\ ~ AtEOF(tzar, u_pos)
    /\ LET rs == readString(tzar, u_pos)
           should == should_extract_current_item(extract_all, files_to_extract, rs.str)
           rb == readBinaryData(tzar, rs.pos, should)
           m == Materialize(u_fs, outputPath(<<>>, rs.str), rb.bytes)
           err == IF rs.err # "" THEN rs.err
                  ELSE IF rb.err # "" THEN rb.err
                  ELSE IF should /\ m.res = "throw" THEN "filesystem error"
                  ELSE ""
       IN  IF err # ""
           THEN /\ u_exit' = 1
                /\ phase' = "unarchived"
                /\ u_out' = Append(u_out, Msg("Error during unarchiving", <<>>, err))
                /\ UNCHANGED <<u_pos, u_fs, extracted_count, skipped_count>>
           ELSE /\ u_pos' = rb.pos
                /\ UNCHANGED <<u_exit, phase>>
                /\ IF should
                   THEN /\ u_fs' = m.fs
                        /\ u_out' = Append(u_out, Msg(MsgOf(m.res), rs.str, ""))
                        /\ extracted_count' =
                              IF Counted(m.res) THEN extracted_count + 1 ELSE extracted_count
                        /\ UNCHANGED skipped_count
                   ELSE /\ skipped_count' = skipped_count + 1
                        /\ UNCHANGED <<u_fs, u_out, extracted_count>>
    /\ UNCHANGED <<extract_all, files_to_extract>>
    /\ UNCHANGED <<moreVars, cipherVars, fileVars, codecVars, encVars, decVars>>

\* UnarchiveEnd that takes a selection nothing matched for an error
UnarchiveEnd_strict ==
    /\ phase = "unarchive"
    /\ AtEOF(tzar, u_pos)
    /\ phase' = "unarchived"
    /\ u_exit' = IF ~extract_all /\ extracted_count = 0 THEN 1 ELSE 0
    /\ u_out' = Append(u_out, Msg("Unarchiving complete.", <<>>, ""))
    /\ UNCHANGED <<extract_all, files_to_extract, u_pos, u_fs, extracted_count,
                   skipped_count>>
    /\ UNCHANGED <<moreVars, cipherVars, fileVars, codecVars, encVars, decVars>>

\* peek() meets the end: the report and return 0
UnarchiveEnd ==
    /\ phase = "unarchive"
    /\ AtEOF(tzar, u_pos)
    /\ phase' = "unarchived"
    /\ u_exit' = 0
    /\ u_out' =
          (IF ~extract_all /\ extracted_count = 0 /\ files_to_extract # {}
           THEN Append(u_out, Msg("Warning: No specified files were found", <<>>, ""))
           ELSE IF ~extract_all
           THEN Append(u_out, Msg("Extracted items, skipped items", <<>>, ""))
           ELSE u_out)
          \o <<Msg("Unarchiving complete.", <<>>, "")>>
    /\ UNCHANGED <<extract_all, files_to_extract, u_pos, u_fs, extracted_count,
                   skipped_count>>
    /\ UNCHANGED <<moreVars, cipherVars, fileVars, codecVars, encVars, decVars>>

---------------------------------------------------------------------------
(* A container is written, may lose its end, and is read by                *)
(* simple_unarchiver, with a selection or without.                         *)

TruncItems == {FileA, DirD, FileB}
TruncSelections == {{}, {pa}, {pb}}

InitTrunc ==
    /\ phase = "archive"
    /\ items \in {its \in SeqsUpTo(TruncItems, MaxItems) : Collected(its)}
    /\ records = <<>> /\ written = 0 /\ tzar = <<>> /\ cut = -1
    /\ IdleCipher /\ IdleCodec /\ IdleUnar /\ IdleEnc /\ IdleDec /\ IdleMore

NextTrunc ==
    \/ ArchiveItem
    \/ ArchiveClose
    \/ ArchiveNothing
    \/ \E n \in 0..(Len(tzar) - 1) : Truncate(n)
    \/ \E selection \in TruncSelections : UnarchiveStart(selection)
    \/ UnarchiveStep
    \/ UnarchiveEnd

SpecTrunc == InitTrunc /\ [][NextTrunc]_vars

\* C6: once skipping a payload has taken the read position past the end of
\* the container, the pass does not end with status 0.
C6_SkipDetectsTruncation ==
    u_pos > Len(tzar) => u_exit # 0

\* whether record i of rs is one the pass extracts
IsSelected(rs, i, all, selection) == all \/ rs[i].path \in selection

\* the tree after the first k records of rs went through the loop
RECURSIVE TreeAfter(_, _, _, _)
TreeAfter(rs, k, all, selection) ==
    IF k = 0 THEN EmptyTree
    ELSE LET before == TreeAfter(rs, k - 1, all, selection)
         IN  IF IsSelected(rs, k, all, selection)
             THEN Materialize(before, outputPath(<<>>, rs[k].path), rs[k].payload).fs
             ELSE before

ErrorPrinted == \E i \in 1..Len(u_out) : u_out[i].msg = "Error during unarchiving"

\* C7: an error thrown by readString or readBinaryData ends the pass with
\* status 1: the records before the failing one, and no other, went through
\* the loop, and what they left in the tree is still there.  A container
\* that ends after the path of its first record, before the payload length,
\* ends the pass with status 1, nothing extracted, nothing in the tree.
C7_TruncationAborts ==
    phase = "unarchived" =>
        /\ (CutInside /\ extract_all) => ErrorPrinted
        /\ ErrorPrinted =>
              /\ u_exit = 1
              /\ CutInside
              /\ u_out[Len(u_out)].msg = "Error during unarchiving"
              /\ u_pos = Boundary(records, WholeBefore(records, cut))
              /\ extracted_count + skipped_count = WholeBefore(records, cut)
              /\ u_fs = TreeAfter(records, WholeBefore(records, cut), extract_all,
                                  files_to_extract)
        /\ (Len(records) > 0 /\ cut = 4 + Len(records[1].path)) =>
              /\ u_exit = 1
              /\ extracted_count = 0 /\ skipped_count = 0
              /\ u_fs = EmptyTree

C7_Witness ==
    /\ phase = "unarchived"
    /\ Len(records) = 3
    /\ cut > Boundary(records, 2)
    /\ u_exit = 1
    /\ extracted_count = 2
    /\ <<pa>> \in DOMAIN u_fs /\ u_fs[<<pa>>] = File(<<65, 65, 65>>)

\* the number of records of a container that ends at a record boundary, and
\* -1 for one cut inside a record
WholeRecords == IF cut = -1 THEN Len(records)
                ELSE IF cut \in Boundaries(records) THEN WholeBefore(records, cut)
                ELSE -1

PlainMessages == {"Extracted file", "Extracted directory", "Directory already exists",
                  "Unarchiving complete."}

\* C29: a pass of simple_unarchiver over a container that ends at a record
\* boundary, after k of its records (k from 0 to all of them), ends with
\* status 0 and has put the first k records through the loop, as it does
\* for a container written with those k records; without a selection it has
\* materialized each of the k records and printed no error and no warning.
\* A pass ends with an error only when the container is cut inside a record.
C29_BoundaryCutAccepted ==
    phase = "unarchived" =>
        /\ WholeRecords >= 0 =>
              /\ u_exit = 0
              /\ ~ ErrorPrinted
              /\ u_pos = Len(tzar)
              /\ u_fs = TreeAfter(records, WholeRecords, extract_all, files_to_extract)
              /\ extracted_count + skipped_count = WholeRecords
              /\ extract_all =>
                    /\ extracted_count = WholeRecords
                    /\ \A i \in 1..Len(u_out) : u_out[i].msg \in PlainMessages
                    /\ \A i \in 1..WholeRecords :
                          /\ <<records[i].path>> \in DOMAIN u_fs
                          /\ u_fs[<<records[i].path>>] =
                                IF Len(records[i].payload) = 0 THEN Dir
                                ELSE File(records[i].payload)
        /\ (u_exit # 0 \/ ErrorPrinted) => CutInside

C29_Witness ==
    /\ phase = "unarchived"
    /\ records = <<RecordOf(FileB), RecordOf(DirD), RecordOf(FileA)>>
    /\ cut = Boundary(records, 2)
    /\ extract_all
    /\ u_exit = 0
    /\ extracted_count = 2
    /\ u_fs = (<<>> :> Dir) @@ (<<pb>> :> File(<<66, 66>>)) @@ (<<pd>> :> Dir)
    /\ Len(u_out) = 3

---------------------------------------------------------------------------
(* A whole container is read by simple_unarchiver with a selection. *)

ExtractItems == {FileA, FileB, DirD, FileDA, FileD, DirA, EmptyE, FileU}
Selections == {{}, {pb}, {pa, pd}, {pd, pda}, {pe, pz}}

InitExtract ==
    /\ phase = "archive"
    /\ items \in {its \in SeqsUpTo(ExtractItems, MaxItems) : Collected(its)}
    /\ records = <<>> /\ written = 0 /\ tzar = <<>> /\ cut = -1
    /\ IdleCipher /\ IdleCodec /\ IdleUnar /\ IdleEnc /\ IdleDec /\ IdleMore

NextExtract ==
    \/ ArchiveItem
    \/ ArchiveClose
    \/ ArchiveNothing
    \/ \E selection \in Selections : UnarchiveStart(selection)
    \/ UnarchiveStep
    \/ UnarchiveEnd

SpecExtract == InitExtract /\ [][NextExtract]_vars

\* the records of rs whose path is in the selection
InSelection(rs, selection) == {i \in 1..Len(rs) : rs[i].path \in selection}

IsProperPrefix(p, q) == Len(p) < Len(q) /\ SubSeq(q, 1, Len(p)) = p

\* no two records with index in I ask for a file and something else in one
\* place: no file record has the path of a directory record, or a path that
\* another record's path passes through
NoCollision(rs, I) ==
    \A i \in I : \A j \in I :
        (i # j /\ Len(rs[i].payload) > 0) =>
            /\ ~ IsProperPrefix(Components(rs[i].path), Components(rs[j].path))
            /\ ~ (rs[i].path = rs[j].path /\ Len(rs[j].payload) = 0)

\* the tree that holds the records with index in I and the directories
\* above them, and nothing else; of records with one path the last counts
TreeOf(rs, I) ==
    LET paths == {Components(rs[i].path) : i \in I}
        nodes == {<<>>} \cup UNION {Prefixes(p) : p \in paths}
        last(p) == CHOOSE i \in I :
                      /\ Components(rs[i].path) = p
                      /\ \A j \in I : Components(rs[j].path) = p => j <= i
    IN  [p \in nodes |->
            IF p \in paths /\ Len(rs[last(p)].payload) > 0
            THEN File(rs[last(p)].payload)
            ELSE Dir]

CountsPrinted == \E i \in 1..Len(u_out) : u_out[i].msg = "Extracted items, skipped items"

\* C23: a pass of simple_unarchiver over a whole container of n records,
\* with no selection, decodes the n records up to the end of the stream,
\* materializes each of them, and exits with status 0.
C23_ReaderPass ==
    (phase = "unarchived" /\ extract_all) =>
        /\ u_exit = 0
        /\ u_pos = Len(tzar)
        /\ extracted_count = Len(records)

\* what C8 says of a pass with a selection, for the records with index in I
SelectionExtracted(I) ==
    /\ u_exit = 0
    /\ u_fs = TreeOf(records, I)
    /\ extracted_count = Cardinality(I)
    /\ skipped_count = Len(records) - Cardinality(I)
    /\ Cardinality(I) > 0 => CountsPrinted

WarningsPrinted ==
    Cardinality({i \in 1..Len(u_out) :
                    u_out[i].msg \in {"Warning: Cannot create directory",
                                      "Warning: Could not create output file"}})

Processed == extracted_count + skipped_count + WarningsPrinted

\* C27: a pass of simple_unarchiver over a whole container that ends with
\* status 0 has counted every record it decoded once, as extracted or as
\* skipped: the two counters add up to the number of records.
C27_CounterAccounting ==
    (phase = "unarchived" /\ u_exit = 0) =>
        extracted_count + skipped_count = Len(records)

\* C16: a pass over a whole container is not ended by a record that cannot
\* be materialized: it ends with status 0 and has gone through every record.
C16_LocalFailureNeverAborts ==
    phase = "unarchived" => (u_exit = 0 /\ Processed = Len(records))

\* C19: a pass with a non-empty selection that no record of the container
\* matches ends with status 0, has skipped every record, leaves the tree
\* empty, and prints the warning that nothing was found and no error.
C19_NothingMatched ==
    (/\ phase = "unarchived" /\ ~extract_all
     /\ InSelection(records, files_to_extract) = {}) =>
        /\ u_exit = 0
        /\ u_fs = EmptyTree
        /\ extracted_count = 0
        /\ skipped_count = Len(records)
        /\ u_out = <<Msg("Warning: No specified files were found", <<>>, ""),
                     Msg("Unarchiving complete.", <<>>, "")>>

C19_Witness ==
    /\ phase = "unarchived"
    /\ files_to_extract = {pe, pz}
    /\ Len(records) = 3
    /\ u_exit = 0
    /\ skipped_count = 3
    /\ u_fs = EmptyTree

---------------------------------------------------------------------------
(* tzar_encrypt and tzar_decrypt.  The container goes through              *)
(* simple_unarchiver (all of it), through tzar_encrypt, and twice through  *)
(* tzar_decrypt, each run in a working directory of its own.               *)

\* the passwords "pw" and "wrong", and the empty one
Pw == <<112, 119>>
Wrong == <<119, 114, 111, 110, 103>>
Passwords == {<<>>, Pw, Wrong}

\* sha256(password_bytes) for the passwords of the model
KeyOf == [pwd \in Passwords |-> sha256(pwd)]

\* the test of the password with no password taken for empty
password_never_empty(pwd) == FALSE

\* password.empty()
password_empty(pwd) == Len(pwd) = 0

\* fs::path(input_tzar2_path).stem(): the directory "out"
output_base_path == <<<<111, 117, 116>>>>

EncryptStart(pwd) ==
    /\ phase = "unarchived"
    /\ IF argc["tzar_encrypt"] < MinArgc("tzar_encrypt")
       THEN /\ e_exit' = 1
            /\ phase' = "done"
            /\ UNCHANGED <<password, encryption_key, e_pos, tzar2, e_io>>
       ELSE IF password_empty(pwd)
       THEN /\ password' = pwd
            /\ e_exit' = 1
            /\ phase' = "done"
            /\ UNCHANGED <<encryption_key, e_pos, tzar2, e_io>>
       ELSE /\ password' = pwd
            /\ encryption_key' = KeyOf[pwd]
            /\ e_io' = e_io \o <<"open input", "create output">>
            /\ e_pos' = 0
            /\ tzar2' = <<1>>
            /\ phase' = "encrypt"
            /\ UNCHANGED e_exit
    /\ UNCHANGED <<libVars, argVars, collectVars, a_exit, a_io, d_io>>
    /\ UNCHANGED <<cipherVars, fileVars, codecVars, unarVars, decVars>>

\* EncryptStep with the path of a record written as soon as it is read,
\* before the payload is read
EncryptStep_eager ==
    /\ phase = "encrypt"
    /\ ~ AtEOF(tzar, e_pos)
    /\ LET rs == readString(tzar, e_pos)
           r == ReadRecord(tzar, e_pos, TRUE)
       IN  IF r.err # ""
           THEN /\ e_exit' = 1
                /\ phase' = "done"
                /\ tzar2' = IF rs.err = "" THEN writeString(tzar2, rs.str) ELSE tzar2
                /\ UNCHANGED e_pos
           ELSE /\ tzar2' = writeBinaryData(writeString(tzar2, r.path),
                                            xor_cipher(r.bytes, encryption_key))
                /\ e_pos' = r.pos
                /\ UNCHANGED <<e_exit, phase>>
    /\ UNCHANGED <<password, encryption_key>>
    /\ UNCHANGED <<moreVars, cipherVars, fileVars, codecVars, unarVars, decVars>>

\* one turn of the loop of tzar_encrypt, or the handler of what it throws
EncryptStep ==
    /\ phase = "encrypt"
    /\ ~ AtEOF(tzar, e_pos)
    /\ LET r == ReadRecord(tzar, e_pos, TRUE)
       IN  IF r.err # ""
           THEN /\ e_exit' = 1
                /\ phase' = "done"
                /\ UNCHANGED <<e_pos, tzar2>>
           ELSE /\ tzar2' = writeBinaryData(writeString(tzar2, r.path),
                                            xor_cipher(r.bytes, encryption_key))
                /\ e_pos' = r.pos
                /\ UNCHANGED <<e_exit, phase>>
    /\ UNCHANGED <<password, encryption_key>>
    /\ UNCHANGED <<moreVars, cipherVars, fileVars, codecVars, unarVars, decVars>>

EncryptEnd ==
    /\ phase = "encrypt"
    /\ AtEOF(tzar, e_pos)
    /\ e_exit' = 0
    /\ phase' = "encrypted"
    /\ UNCHANGED <<password, encryption_key, e_pos, tzar2>>
    /\ UNCHANGED <<moreVars, cipherVars, fileVars, codecVars, unarVars, decVars>>

\* the phase in which run r may start, in which it runs, and the one after
Before(r) == IF r = 1 THEN "encrypted" ELSE "decrypted"
Running(r) == IF r = 1 THEN "decrypt1" ELSE "decrypt2"
After(r) == IF r = 1 THEN "decrypted" ELSE "done"

\* the test of the encryption flag with the value of the flag left out
flag_any(inFile) == Len(inFile) > 0

\* inFile.get() gives a byte, and the byte is 0x01
flag_accepted(inFile) == Len(inFile) > 0 /\ inFile[1] = 1

\* main of tzar_decrypt up to the loop
DecryptStart(r, pwd) ==
    /\ phase = Before(r)
    /\ IF argc["tzar_decrypt"] < MinArgc("tzar_decrypt")
       THEN /\ d_exit' = [d_exit EXCEPT ![r] = 1]
            /\ phase' = After(r)
            /\ UNCHANGED <<d_password, decryption_key, d_pos, d_fs, d_io>>
       ELSE IF password_empty(pwd)
       THEN /\ d_password' = [d_password EXCEPT ![r] = pwd]
            /\ d_exit' = [d_exit EXCEPT ![r] = 1]
            /\ phase' = After(r)
            /\ UNCHANGED <<decryption_key, d_pos, d_fs, d_io>>
       ELSE IF ~ flag_accepted(tzar2)
       THEN /\ d_password' = [d_password EXCEPT ![r] = pwd]
            /\ decryption_key' = [decryption_key EXCEPT ![r] = KeyOf[pwd]]
            /\ d_io' = [d_io EXCEPT ![r] = Append(@, "open input")]
            /\ d_exit' = [d_exit EXCEPT ![r] = 1]
            /\ phase' = After(r)
            /\ UNCHANGED <<d_pos, d_fs>>
       ELSE LET cd == create_directories(d_fs[r], output_base_path)
            IN  /\ d_password' = [d_password EXCEPT ![r] = pwd]
                /\ decryption_key' = [decryption_key EXCEPT ![r] = KeyOf[pwd]]
                /\ d_io' = [d_io EXCEPT ![r] = Append(@, "open input")]
                /\ d_pos' = [d_pos EXCEPT ![r] = 1]
                /\ d_fs' = [d_fs EXCEPT ![r] = cd.fs]
                \* thrown outside the try block: std::terminate
                /\ d_exit' = IF cd.ok THEN d_exit ELSE [d_exit EXCEPT ![r] = 134]
                /\ phase' = IF cd.ok THEN Running(r) ELSE After(r)
    /\ UNCHANGED <<d_extracted, d_out>>
    /\ UNCHANGED <<libVars, argVars, collectVars, a_exit, a_io, e_io>>
    /\ UNCHANGED <<cipherVars, fileVars, codecVars, unarVars, encVars>>

\* one turn of the loop of tzar_decrypt, or the handler of what it throws
DecryptStep(r) ==
    /\ phase = Running(r)
    /\ ~ AtEOF(tzar2, d_pos[r])
    /\ LET rec == ReadRecord(tzar2, d_pos[r], TRUE)
           decrypted_content == xor_cipher(rec.bytes, decryption_key[r])
           m == Materialize(d_fs[r], outputPath(output_base_path, rec.path),
                            decrypted_content)
           err == IF rec.err # "" THEN rec.err
                  ELSE IF m.res = "throw" THEN "filesystem error"
                  ELSE ""
       IN  IF err # ""
           THEN /\ d_exit' = [d_exit EXCEPT ![r] = 1]
                /\ phase' = After(r)
                /\ d_out' = [d_out EXCEPT ![r] =
                                Append(@, Msg("Error during decryption", <<>>, err))]
                /\ UNCHANGED <<d_pos, d_fs, d_extracted>>
           ELSE /\ d_pos' = [d_pos EXCEPT ![r] = rec.pos]
                /\ d_fs' = [d_fs EXCEPT ![r] = m.fs]
                /\ d_out' = [d_out EXCEPT ![r] = Append(@, Msg(MsgOf(m.res), rec.path, ""))]
                /\ d_extracted' = [d_extracted EXCEPT ![r] =
                                      IF Counted(m.res) THEN @ + 1 ELSE @]
                /\ UNCHANGED <<d_exit, phase>>
    /\ UNCHANGED <<d_password, decryption_key>>
    /\ UNCHANGED <<moreVars, cipherVars, fileVars, codecVars, unarVars, encVars>>

DecryptEnd(r) ==
    /\ phase = Running(r)
    /\ AtEOF(tzar2, d_pos[r])
    /\ d_exit' = [d_exit EXCEPT ![r] = 0]
    /\ phase' = After(r)
    /\ d_out' = [d_out EXCEPT ![r] =
                    @ \o <<Msg("Extracted items.", <<>>, ""),
                           Msg("Decryption complete.", <<>>, "")>>]
    /\ UNCHANGED <<d_password, decryption_key, d_pos, d_fs, d_extracted>>
    /\ UNCHANGED <<moreVars, cipherVars, fileVars, codecVars, unarVars, encVars>>

CryptItems == {FileA, DirD, FileDA, FileD, DirA, EmptyE}

InitCrypt ==
    /\ phase = "archive"
    /\ items \in {its \in SeqsUpTo(CryptItems, MaxItems) : Collected(its)}
    /\ records = <<>> /\ written = 0 /\ tzar = <<>> /\ cut = -1
    /\ IdleCipher /\ IdleCodec /\ IdleUnar /\ IdleEnc /\ IdleDec /\ IdleMore

NextCrypt ==
    \/ ArchiveItem
    \/ ArchiveClose
    \/ ArchiveNothing
    \/ UnarchiveStart({})
    \/ UnarchiveStep
    \/ UnarchiveEnd
    \/ \E pwd \in Passwords : EncryptStart(pwd)
    \/ EncryptStep
    \/ EncryptEnd
    \/ \E r \in Runs, pwd \in Passwords : DecryptStart(r, pwd)
    \/ \E r \in Runs : DecryptStep(r)
    \/ \E r \in Runs : DecryptEnd(r)

SpecCrypt == InitCrypt /\ [][NextCrypt]_vars


\* the tree below the directory base of fs, as seen from base
TreeUnder(fs, base) ==
    LET below == {q \in DOMAIN fs : Len(q) >= Len(base) /\ SubSeq(q, 1, Len(base)) = base}
    IN  [q \in {SubSeq(b, Len(base) + 1, Len(b)) : b \in below} |-> fs[base \o q]]

\* fs holds the working directory, the directory base, and what is below base
OnlyUnder(fs, base) ==
    \A q \in DOMAIN fs : Len(q) = 0 \/ (Len(q) >= Len(base) /\ SubSeq(q, 1, Len(base)) = base)

\* C2: tzar_encrypt with a non-empty password ends with status 0, and
\* tzar_decrypt with the same password ends as simple_unarchiver does on the
\* plain container and leaves, below its output directory and nowhere else,
\* the tree that simple_unarchiver leaves: the same paths, kinds and bytes.
C2_EncryptedRoundTrip ==
    /\ (Len(password) > 0 /\ phase \notin {"encrypt", "unarchived"}) => e_exit = 0
    /\ \A r \in Runs :
          (e_exit = 0 /\ d_exit[r] >= 0 /\ d_password[r] = password) =>
              /\ d_exit[r] = u_exit
              /\ OnlyUnder(d_fs[r], output_base_path)
              /\ TreeUnder(d_fs[r], output_base_path) = u_fs
              /\ d_extracted[r] = extracted_count

C2_Witness ==
    /\ e_exit = 0 /\ d_exit[1] = 0 /\ d_password[1] = password
    /\ Len(records) = 3
    /\ NoCollision(records, 1..Len(records))
    /\ \E p \in DOMAIN u_fs : Len(p) = 2 /\ u_fs[p].kind = "file"
    /\ \E p \in DOMAIN u_fs : u_fs[p].kind = "file" /\ Len(u_fs[p].bytes) = 3
    /\ TreeUnder(d_fs[1], output_base_path) = u_fs

DirMessages ==
    {"Extracted directory", "Directory already exists", "Warning: Cannot create directory"}
FileMessages == {"Extracted file", "Warning: Could not create output file"}

\* the i-th record of a pass that extracts all went the way of a directory
\* if its payload is empty and the way of a file if it is not, and what the
\* pass says it created at the record's path is there, of that kind
KindByPayload(out, fs, base) ==
    \A i \in 1..Len(out) :
        out[i].msg \in DirMessages \cup FileMessages =>
            LET p == base \o Components(out[i].path)
            IN  /\ out[i].path = records[i].path
                /\ out[i].msg \in DirMessages <=> Len(records[i].payload) = 0
                /\ out[i].msg \in {"Extracted directory", "Directory already exists"}
                      => is_directory(fs, p)
                /\ out[i].msg = "Extracted file" => (exists(fs, p) /\ fs[p].kind = "file")

NoEmptyFile(fs) == \A p \in DOMAIN fs : fs[p].kind = "file" => Len(fs[p].bytes) > 0

Garbled(plain, k1, k2) ==
    [i \in 1..Len(plain) |-> ByteXor(ByteXor(plain[i], KeyAt(k1, i)), KeyAt(k2, i))]

\* C10: tzar_decrypt with a non-empty password that is not the one the
\* container was encrypted with ends with status 0 and leaves below its
\* output directory the paths and kinds that simple_unarchiver leaves for
\* the plain container, each file with the bytes of the plain file XOR the
\* key of the one password XOR the key of the other.
C10_WrongPasswordNotAnError ==
    \A r \in Runs :
        (e_exit = 0 /\ d_exit[r] >= 0 /\ Len(d_password[r]) > 0 /\ d_password[r] # password) =>
            /\ d_exit[r] = 0
            /\ OnlyUnder(d_fs[r], output_base_path)
            /\ LET t == TreeUnder(d_fs[r], output_base_path)
               IN  /\ DOMAIN t = DOMAIN u_fs
                   /\ \A p \in DOMAIN t :
                         /\ t[p].kind = u_fs[p].kind
                         /\ t[p].bytes = Garbled(u_fs[p].bytes, KeyOf[password],
                                                 KeyOf[d_password[r]])


\* the bytes of an encrypted container for the first k records of rs
RECURSIVE Layout(_, _, _)
Layout(rs, k, k1) ==
    IF k = 0 THEN <<1>>
    ELSE Layout(rs, k - 1, k1)
            \o LE(Len(rs[k].path), 4) \o rs[k].path
            \o LE(Len(rs[k].payload), 8)
            \o [i \in 1..Len(rs[k].payload) |-> ByteXor(rs[k].payload[i], KeyAt(k1, i))]

---------------------------------------------------------------------------
(* tzar_encrypt on a container that has lost its end, or in which the      *)
(* length of a path has been overwritten.                                  *)

\* the low byte of the path length of record k becomes 0xFF, which is more
\* than the container has bytes
Corrupt(k) ==
    /\ phase = "ready"
    /\ cut = -1
    /\ k \in 1..Len(records)
    /\ tzar' = [tzar EXCEPT ![Boundary(records, k - 1) + 1] = 255]
    /\ cut' = Len(tzar)
    /\ UNCHANGED <<moreVars, phase, records, items, written, cipherVars, codecVars, unarVars,
                   encVars, decVars>>

InitDamage ==
    /\ phase = "archive"
    /\ items \in {its \in SeqsUpTo(TruncItems, MaxItems) : Collected(its)}
    /\ records = <<>> /\ written = 0 /\ tzar = <<>> /\ cut = -1
    /\ IdleCipher /\ IdleCodec /\ IdleUnar /\ IdleEnc /\ IdleDec /\ IdleMore

NextDamage ==
    \/ ArchiveItem
    \/ ArchiveClose
    \/ ArchiveNothing
    \/ \E n \in 0..(Len(tzar) - 1) : Truncate(n)
    \/ \E k \in 1..MaxItems : Corrupt(k)
    \/ UnarchiveStart({})
    \/ UnarchiveStep
    \/ UnarchiveEnd
    \/ \E pwd \in Passwords : EncryptStart(pwd)
    \/ EncryptStep
    \/ EncryptEnd

SpecDamage == InitDamage /\ [][NextDamage]_vars

\* the number of records at the front of the container that are still as
\* they were written
IntactRecords ==
    LET intact(k) ==
            /\ Boundary(records, k) <= Len(tzar)
            /\ SubSeq(tzar, 1, Boundary(records, k)) = PlainLayout(records, k)
    IN  CHOOSE k \in 0..Len(records) :
            intact(k) /\ \A j \in 0..Len(records) : intact(j) => j <= k

\* bytes that are not a whole record follow the intact records
Damaged == Boundary(records, IntactRecords) # Len(tzar)

\* C30: when tzar_encrypt meets a record it cannot read in full, it ends
\* with status 1 and the output file holds the flag byte 0x01 followed by
\* the encrypted records of the intact records before it, whole and in
\* order, and nothing of the record that failed; it ends so for no other
\* container.
C30_FailedEncryptionPrefix ==
    (phase \in {"done", "encrypted"} /\ e_io # <<>>) =>
        /\ Damaged =>
              /\ e_exit = 1
              /\ e_pos = Boundary(records, IntactRecords)
              /\ tzar2 = Layout(records, IntactRecords, encryption_key)
        /\ e_exit # 0 => Damaged

C30_Witness ==
    /\ phase = "done"
    /\ e_exit = 1
    /\ Len(records) = 3
    /\ cut > Boundary(records, 2) + 4
    /\ cut < Len(PlainLayout(records, 3))
    /\ IntactRecords = 2
    /\ tzar2 = Layout(records, 2, KeyOf[Pw])
    /\ Len(tzar2) = 1 + Boundary(records, 2)

C30_WitnessCorrupt ==
    /\ phase = "done"
    /\ e_exit = 1
    /\ Len(records) = 2
    /\ Len(tzar) = Boundary(records, 2)
    /\ tzar[Boundary(records, 1) + 1] = 255
    /\ tzar2 = Layout(records, 1, KeyOf[Pw])

---------------------------------------------------------------------------
(* tzar_decrypt on a file that need not be an encrypted container: the     *)
(* file is empty, or a flag byte followed by records, or a plain container *)

RECURSIVE Container(_)
Container(its) ==
    IF its = <<>> THEN <<>>
    ELSE archiveItem(Container(SubSeq(its, 1, Len(its) - 1)), its[Len(its)])

FlagBytes == {0, 1, 2, 255}

FlagItems == {FileA, DirD, FileDA}

InitFlag ==
    /\ phase = "encrypted"
    /\ \E its \in {x \in SeqsUpTo(FlagItems, MaxRecords) : Collected(x)} :
          \/ tzar2 = <<>> /\ its = <<>>
          \/ tzar2 = Container(its) /\ its # <<>>
          \/ \E f \in FlagBytes : tzar2 = <<f>> \o Container(its)
    /\ password = <<>> /\ encryption_key = <<>> /\ e_pos = 0 /\ e_exit = -1
    /\ IdleCipher /\ IdleFiles /\ IdleCodec /\ IdleUnar /\ IdleDec /\ IdleMore

NextFlag ==
    \/ \E r \in Runs, pwd \in Passwords : DecryptStart(r, pwd)
    \/ \E r \in Runs : DecryptStep(r)
    \/ \E r \in Runs : DecryptEnd(r)

SpecFlag == InitFlag /\ [][NextFlag]_vars

\* C11: when the input of tzar_decrypt is empty or its first byte is not
\* 0x01, the run exits with status 1, decodes no record and creates neither
\* the output directory nor any file.
C11_FormatMismatch ==
    \A r \in Runs :
        (d_exit[r] # -1 /\ (Len(tzar2) = 0 \/ tzar2[1] # 1)) =>
            /\ d_exit[r] = 1
            /\ d_pos[r] = 0 /\ d_extracted[r] = 0 /\ d_out[r] = <<>>
            /\ d_fs[r] = EmptyTree

C11_Witness ==
    /\ d_exit[1] = 1 /\ d_password[1] = Pw /\ d_io[1] = <<"open input">>
    /\ Len(tzar2) > 1 /\ tzar2[1] = 0
    /\ d_fs[1] = EmptyTree /\ d_pos[1] = 0

---------------------------------------------------------------------------
(* Each of the four programs called by hand, with too few arguments or     *)
(* enough, with or without a password, on inputs that exist or do not; the *)
(* programs that come before it have run on the file a and directory d.    *)

UsageItems == <<FileA, DirD>>

UsageRecords == [i \in 1..Len(UsageItems) |-> RecordOf(UsageItems[i])]

UsageInputs == {pb, pd, pm, ps}

\* simple_archiver has written the container of UsageItems
ArchiverDone ==
    /\ inputs = <<>> /\ readdir_desc = FALSE /\ IdleCollect
    /\ items = UsageItems /\ records = UsageRecords /\ written = Len(UsageItems)
    /\ tzar = Container(UsageItems) /\ cut = -1
    /\ a_exit = 0 /\ a_io = <<"create output">>

\* what the loop of tzar_encrypt appends to outFile from position pos of a
\* container of whole records
RECURSIVE EncryptLoop(_, _, _, _)
EncryptLoop(inFile, pos, outFile, encKey) ==
    IF AtEOF(inFile, pos) THEN outFile
    ELSE LET r == ReadRecord(inFile, pos, TRUE)
         IN  EncryptLoop(inFile, r.pos,
                         writeBinaryData(writeString(outFile, r.path),
                                         xor_cipher(r.bytes, encKey)),
                         encKey)

\* tzar_encrypt has written the encrypted container of UsageItems
EncryptDone ==
    /\ password = Pw /\ encryption_key = KeyOf[Pw]
    /\ e_pos = Len(Container(UsageItems))
    /\ tzar2 = EncryptLoop(Container(UsageItems), 0, <<1>>, KeyOf[Pw])
    /\ e_exit = 0 /\ e_io = <<"open input", "create output">>

InitUsage ==
    /\ \E tool \in Tools, n \in 1..(2 + MaxInputs) :
          /\ argc = [EnoughArgs EXCEPT ![tool] = n]
          /\ \/ /\ tool = "simple_archiver"
                /\ phase = "collect"
                /\ inputs \in SeqsUpTo(UsageInputs, MaxInputs)
                /\ n = IF inputs = <<>> THEN 1 ELSE 2 + Len(inputs)
                /\ readdir_desc \in BOOLEAN
                /\ IdleCollect /\ IdleFiles /\ IdleEnc
                /\ a_exit = -1 /\ a_io = <<>> /\ e_io = <<>>
             \/ /\ tool = "simple_unarchiver"
                /\ phase = "ready"
                /\ n <= 3
                /\ ArchiverDone /\ IdleEnc /\ e_io = <<>>
             \/ /\ tool = "tzar_encrypt"
                /\ phase = "unarchived"
                /\ n <= 4
                /\ ArchiverDone /\ IdleEnc /\ e_io = <<>>
             \/ /\ tool = "tzar_decrypt"
                /\ phase = "encrypted"
                /\ n <= 3
                /\ ArchiverDone /\ EncryptDone
    /\ d_io = [r \in Runs |-> <<>>]
    /\ IdleSha /\ IdleGui
    /\ IdleCipher /\ IdleCodec /\ IdleUnar /\ IdleDec

\* the names after the archive's name, when there are any
SelectionOf(n) == IF n > 2 THEN {pa} ELSE {}

NextUsage ==
    \/ ArchiveStart
    \/ ArchiveItem
    \/ ArchiveClose
    \/ ArchiveNothing
    \/ UnarchiveStart(SelectionOf(argc["simple_unarchiver"]))
    \/ UnarchiveStep
    \/ UnarchiveEnd
    \/ \E pwd \in Passwords : EncryptStart(pwd)
    \/ EncryptStep
    \/ EncryptEnd
    \/ \E r \in Runs, pwd \in Passwords : DecryptStart(r, pwd)
    \/ \E r \in Runs : DecryptStep(r)
    \/ \E r \in Runs : DecryptEnd(r)

SpecUsage == InitUsage /\ [][NextUsage]_vars

\* what a program that refuses its call leaves behind
ArchiverRefused == a_exit > 0 /\ a_io = <<>> /\ tzar = <<>> /\ records = <<>>
UnarchiverRefused == u_exit > 0 /\ u_fs = EmptyTree /\ u_out = <<>> /\ extracted_count = 0
EncryptRefused == e_exit > 0 /\ e_io = <<>> /\ tzar2 = <<>>
DecryptRefused(r) ==
    /\ d_exit[r] > 0 /\ d_io[r] = <<>> /\ d_fs[r] = EmptyTree
    /\ d_out[r] = <<>> /\ d_extracted[r] = 0

\* too few arguments, or an empty password
BadCallsRefused ==
    /\ (a_exit # -1 /\ argc["simple_archiver"] < 3) => ArchiverRefused
    /\ (u_exit # -1 /\ argc["simple_unarchiver"] < 2) => UnarchiverRefused
    /\ (e_exit # -1 /\ (argc["tzar_encrypt"] < 3 \/ password = <<>>)) => EncryptRefused
    /\ \A r \in Runs :
          (d_exit[r] # -1 /\ (argc["tzar_decrypt"] < 2 \/ d_password[r] = <<>>)) =>
              DecryptRefused(r)

\* C14 as stated: every usage error (too few arguments, an empty password,
\* no valid input found) makes the program exit with a non-zero status and
\* produce no output.
C14_AsStated ==
    /\ BadCallsRefused
    /\ (a_exit # -1 /\ NothingToCollect) => ArchiverRefused

\* C14: too few arguments or an empty password make the program exit with
\* status 1 and produce no output; when simple_archiver finds no valid
\* input it produces no output either, but exits with status 0.
C14_UsageErrors ==
    /\ BadCallsRefused
    /\ (a_exit # -1 /\ argc["simple_archiver"] >= 3 /\ NothingToCollect) =>
          (a_exit = 0 /\ a_io = <<>> /\ tzar = <<>> /\ records = <<>>)

C14_Witness ==
    /\ phase = "done" /\ argc["tzar_encrypt"] = 2
    /\ e_exit = 1 /\ e_io = <<>> /\ tzar2 = <<>> /\ Len(tzar) > 0

C14_WitnessNoInput ==
    /\ phase = "done" /\ inputs = <<pm, ps>> /\ argc["simple_archiver"] = 4
    /\ a_exit = 0 /\ a_io = <<>>

---------------------------------------------------------------------------
(* sha256 called several times in one run of a program.  H is a static     *)
(* array that is not const: static_H holds what it holds.                  *)

MaxShaCalls == 3

\* an input of 56 bytes, which pads to two blocks
LongInput == [i \in 1..56 |-> i]

DigestInputs == Passwords \cup {LongInput}

\* sha256 of the inputs of the model while H holds its initial values
DigestOf == [bytes \in DigestInputs |-> IF bytes \in Passwords THEN KeyOf[bytes] ELSE sha256(bytes)]

\* a call of sha256 whose working state is the array H itself, not a copy
sha256_call_inplace(h, bytes) ==
    [hash |-> sha256_from(h, bytes),
     H |-> Blocks(h, ZeroPad(Append(bytes, 128)) \o BitLenBytes(Len(bytes)), 1)]

\* a call of sha256 while H holds h: what it returns, and what H holds after
sha256_call(h, bytes) ==
    [hash |-> IF h = H THEN DigestOf[bytes] ELSE sha256_from(h, bytes),
     H |-> h]

Sha256(p, bytes) ==
    /\ phase = "digest"
    /\ Len(sha_calls) < MaxShaCalls
    /\ LET call == sha256_call(static_H[p], bytes)
       IN  /\ static_H' = [static_H EXCEPT ![p] = call.H]
           /\ sha_calls' = Append(sha_calls,
                                  [program |-> p, data |-> bytes, hash |-> call.hash])
    /\ UNCHANGED <<phase, argVars, collectVars, ioVars, guiVars>>
    /\ UNCHANGED <<cipherVars, fileVars, codecVars, unarVars, encVars, decVars>>

InitDigest ==
    /\ phase = "digest"
    /\ IdleCipher /\ IdleFiles /\ IdleCodec /\ IdleUnar /\ IdleEnc /\ IdleDec /\ IdleMore

NextDigest == \E p \in Programs, bytes \in DigestInputs : Sha256(p, bytes)

SpecDigest == InitDigest /\ [][NextDigest]_vars

\* C18: sha256 returns 32 bytes for every input; two calls with the same
\* input return the same bytes, whatever was called before and in whichever
\* of tzar_encrypt and tzar_decrypt; and the array H is never modified.
C18_DigestDeterministic ==
    /\ \A p \in Programs : static_H[p] = H
    /\ \A i \in 1..Len(sha_calls) :
          /\ Len(sha_calls[i].hash) = 32
          /\ \A j \in 1..32 : sha_calls[i].hash[j] \in 0..255
          /\ sha_calls[i].data \in Passwords => sha_calls[i].hash = KeyOf[sha_calls[i].data]
    /\ \A i, j \in 1..Len(sha_calls) :
          sha_calls[i].data = sha_calls[j].data => sha_calls[i].hash = sha_calls[j].hash

C18_Witness ==
    /\ Len(sha_calls) = 3
    /\ sha_calls[1].program = "tzar_encrypt" /\ sha_calls[1].data = Pw
    /\ sha_calls[2].program = "tzar_encrypt" /\ sha_calls[2].data = LongInput
    /\ sha_calls[3].program = "tzar_decrypt" /\ sha_calls[3].data = Pw
    /\ sha_calls[1].hash = sha_calls[3].hash
    /\ sha_calls[1].hash # sha_calls[2].hash

---------------------------------------------------------------------------
(* tzar_gui: load_archive_contents, called on the archive files x and y    *)
(* and on the name m, which no file has.                                   *)

MaxLoads == 3

\* the list store left as it is
gtk_list_store_keep(store) == store

gtk_list_store_clear(store) == <<>>

Row(filePath, fileSize) == [path |-> filePath, size |-> fileSize]

gui_readString(inFile, pos) == readString(inFile, pos)

\* the size is read and the payload passed over by seekg(size, cur), which
\* on a file also moves past the end of the file
gui_readBinaryDataSizeAndSkip(inFile, pos) ==
    IF pos + 8 > Len(inFile) THEN [err |-> "binary data size", pos |-> pos, size |-> 0]
    ELSE LET size == LEValue(SubSeq(inFile, pos + 1, pos + 8))
         IN  [err |-> "", pos |-> pos + 8 + size, size |-> size]

\* the loop of load_archive_contents from position pos: the rows of the
\* store when it ends, and what was thrown, if anything
RECURSIVE gui_parse(_, _, _)
gui_parse(inFile, pos, store) ==
    IF AtEOF(inFile, pos) THEN [store |-> store, err |-> ""]
    ELSE LET rs == gui_readString(inFile, pos)
         IN  IF rs.err # "" THEN [store |-> store, err |-> rs.err]
             ELSE LET rb == gui_readBinaryDataSizeAndSkip(inFile, rs.pos)
                  IN  IF rb.err # "" THEN [store |-> store, err |-> rb.err]
                      ELSE gui_parse(inFile, rb.pos, Append(store, Row(rs.str, rb.size)))

\* what load_archive_contents leaves in the list store, in
\* current_archive_is_encrypted and in current_archive_path
load_archive_contents(disk, store, path, archive_path) ==
    LET cleared == gtk_list_store_clear(store)
    IN  IF archive_path \notin DOMAIN disk \/ Len(disk[archive_path]) = 0
        THEN [store |-> cleared, encrypted |-> FALSE, path |-> path]
        ELSE LET inFile == disk[archive_path]
                 encryption_flag == inFile[1]
                 start == IF encryption_flag = 0 \/ encryption_flag = 1 THEN 1 ELSE 0
                 parsed == gui_parse(inFile, start, cleared)
             IN  [store |-> parsed.store,
                  encrypted |-> (encryption_flag = 1),
                  path |-> IF parsed.err = "" THEN archive_path ELSE path]

LoadArchiveContents(archive_path) ==
    /\ phase = "gui"
    /\ Len(gui_loads) < MaxLoads
    /\ LET after == load_archive_contents(gui_disk, file_list_store,
                                          current_archive_path, archive_path)
       IN  /\ file_list_store' = after.store
           /\ current_archive_is_encrypted' = after.encrypted
           /\ current_archive_path' = after.path
           /\ gui_loads' = Append(gui_loads, [path |-> archive_path, rows |-> after.store])
    /\ UNCHANGED <<phase, gui_disk, gui_command, argVars, collectVars, ioVars, shaVars>>
    /\ UNCHANGED <<cipherVars, fileVars, codecVars, unarVars, encVars, decVars>>

GuiPaths == {"x", "y", "m"}

\* the file "ab": a path of two bytes
FileAB == Item(<<97, 98>>, "file", <<67>>, TRUE)

GuiItems == {FileA, DirD, FileDA, FileAB}

\* what the writer has archived for the file x
GuiSeqs == {its \in SeqsUpTo(GuiItems, MaxRecords) : Collected(its)}

\* how many bytes the file x has lost at its end
GuiCuts == {0, 1, 9}

\* the file x: a container of the writer, as it is or after a flag byte,
\* whole or cut short
GuiContents ==
    {SubSeq(c, 1, Len(c) - k) :
        c \in {Container(its) : its \in GuiSeqs}
              \cup {<<f>> \o Container(its) : f \in FlagBytes, its \in GuiSeqs},
        k \in GuiCuts}

\* the file y: the flag byte 0x00 and the record of the file b
GuiOther == <<0>> \o Container(<<FileB>>)

InitGui ==
    /\ phase = "gui"
    /\ \E c \in GuiContents : gui_disk = ("x" :> c) @@ ("y" :> GuiOther)
    /\ file_list_store = <<>>
    /\ current_archive_is_encrypted = FALSE
    /\ current_archive_path = ""
    /\ gui_loads = <<>>
    /\ gui_command = NoCommand
    /\ IdleArgs /\ IdleCollect /\ IdleIo /\ IdleSha
    /\ IdleCipher /\ IdleFiles /\ IdleCodec /\ IdleUnar /\ IdleEnc /\ IdleDec

NextGui == \E archive_path \in GuiPaths : LoadArchiveContents(archive_path)

SpecGui == InitGui /\ [][NextGui]_vars

\* C17: two calls of load_archive_contents on the same path of an unchanged
\* file give the same rows (path, size) in the same order, whatever was
\* loaded before; rows of an earlier listing are never kept.
C17_IdempotentListing ==
    /\ \A i, j \in 1..Len(gui_loads) :
          gui_loads[i].path = gui_loads[j].path => gui_loads[i].rows = gui_loads[j].rows
    /\ \A i \in 1..Len(gui_loads) :
          gui_loads[i].rows =
              load_archive_contents(gui_disk, <<>>, "", gui_loads[i].path).store

C17_Witness ==
    /\ Len(gui_loads) = 3
    /\ gui_loads[1].path = "x" /\ gui_loads[2].path = "y" /\ gui_loads[3].path = "x"
    /\ Len(gui_loads[1].rows) = 2
    /\ gui_loads[2].rows = <<Row(pb, 2)>>
    /\ gui_loads[3].rows = gui_loads[1].rows
    /\ file_list_store = gui_loads[3].rows

\* one row for each of the items: its path and the length of its payload
RowsOf(its) ==
    [i \in 1..Len(its) |-> Row(RecordOf(its[i]).path, Len(RecordOf(its[i]).payload))]

\* the last call of load_archive_contents was for the path
LastLoaded(archive_path) ==
    Len(gui_loads) > 0 /\ gui_loads[Len(gui_loads)].path = archive_path

\* C24: when the file listed is a whole container of the writer, the rows
\* are its records (path, payload length) in order and the archive counts as
\* not encrypted; when it is the flag byte 0x01 followed by such records,
\* the rows are the same and the archive counts as encrypted.
C24_ListingByFormat ==
    \A its \in GuiSeqs :
        LastLoaded("x") =>
            /\ (its # <<>> /\ gui_disk["x"] = Container(its)) =>
                  /\ file_list_store = RowsOf(its)
                  /\ ~current_archive_is_encrypted
            /\ gui_disk["x"] = <<1>> \o Container(its) =>
                  /\ file_list_store = RowsOf(its)
                  /\ current_archive_is_encrypted

---------------------------------------------------------------------------
(* tzar_gui in use: archives are opened, created and encrypted, and what   *)
(* is open is extracted, whole or by selected rows.  (Decrypt Archive      *)
(* reads and writes nothing the other handlers use.)                       *)

\* main of tzar_encrypt from position pos of inFile: the exit status and
\* the bytes of the output file when it returns
RECURSIVE tzar_encrypt_main(_, _, _, _)
tzar_encrypt_main(inFile, pos, outFile, encKey) ==
    IF AtEOF(inFile, pos) THEN [exit |-> 0, outFile |-> outFile]
    ELSE LET r == ReadRecord(inFile, pos, TRUE)
         IN  IF r.err # "" THEN [exit |-> 1, outFile |-> outFile]
             ELSE tzar_encrypt_main(inFile, r.pos,
                                    writeBinaryData(writeString(outFile, r.path),
                                                    xor_cipher(r.bytes, encKey)),
                                    encKey)

\* output_base_name + ".tzar2" for the archive files x and y
Tzar2Name(input_filename) == IF input_filename = "x" THEN "x2" ELSE "y2"

\* the archive file "new_archive.tzar"
NewArchive == "n"

\* the state of the window after load_archive_contents(archive_path) on disk
Loaded(disk, archive_path) ==
    LET after == load_archive_contents(disk, file_list_store,
                                       current_archive_path, archive_path)
    IN  /\ file_list_store' = after.store
        /\ current_archive_is_encrypted' = after.encrypted
        /\ current_archive_path' = after.path
        /\ gui_loads' = Append(gui_loads, [path |-> archive_path, rows |-> after.store])

NotLoaded ==
    UNCHANGED <<file_list_store, current_archive_is_encrypted, current_archive_path,
                gui_loads>>

OtherThanGui ==
    /\ UNCHANGED <<argVars, collectVars, ioVars, shaVars>>
    /\ UNCHANGED <<cipherVars, fileVars, codecVars, unarVars, encVars, decVars>>

\* what the files chosen in the dialog of Create Archive hold
CreateSeqs == {<<>>, <<FileB>>, <<DirD, FileDA>>}

\* Create Archive.  The chooser the handler asks for the chosen files is read
\* before it is given a value: the handler ends the program, or gets no file
\* names and simple_archiver refuses the call, or gets the names of its and
\* simple_archiver archives them (no file is written when its is empty).
OnCreateArchive(outcome, its) ==
    /\ phase = "gui"
    /\ Len(gui_loads) < MaxLoads
    /\ CASE outcome = "crash" ->
                /\ phase' = "crashed"
                /\ NotLoaded
                /\ UNCHANGED <<gui_disk, gui_command>>
         [] outcome = "no files" ->
                /\ gui_command' = Command("simple_archiver", NewArchive, {})
                /\ NotLoaded
                /\ UNCHANGED <<phase, gui_disk>>
         [] outcome = "files" ->
                /\ gui_command' = Command("simple_archiver", NewArchive,
                                          {its[i].rel : i \in 1..Len(its)})
                /\ gui_disk' = IF its = <<>> THEN gui_disk
                               ELSE (NewArchive :> Container(its)) @@ gui_disk
                /\ Loaded(gui_disk', NewArchive)
                /\ UNCHANGED phase
    /\ OtherThanGui

\* Encrypt Archive on the file input_filename with the password pwd
OnEncryptArchive(input_filename, pwd) ==
    /\ phase = "gui"
    /\ Len(gui_loads) < MaxLoads
    /\ ~ password_empty(pwd)
    /\ input_filename \in DOMAIN gui_disk
    /\ LET run == tzar_encrypt_main(gui_disk[input_filename], 0, <<1>>, KeyOf[pwd])
           out == Tzar2Name(input_filename)
       IN  /\ gui_command' = Command("tzar_encrypt", input_filename, {})
           /\ gui_disk' = (out :> run.outFile) @@ gui_disk
           /\ IF run.exit = 0 THEN Loaded(gui_disk', out) ELSE NotLoaded
    /\ UNCHANGED phase
    /\ OtherThanGui

\* Extract All, with the password pwd given when one is asked for
OnExtractAll(pwd) ==
    /\ phase = "gui"
    /\ current_archive_path # ""
    /\ IF current_archive_is_encrypted
       THEN /\ ~ password_empty(pwd)
            /\ gui_command' = Command("tzar_decrypt", current_archive_path, {})
       ELSE gui_command' = Command("simple_unarchiver", current_archive_path, {})
    /\ NotLoaded
    /\ UNCHANGED <<phase, gui_disk>>
    /\ OtherThanGui

\* Extract Selected with the rows of the list selected
OnExtractSelected(rows) ==
    /\ phase = "gui"
    /\ rows # {}
    /\ rows \subseteq 1..Len(file_list_store)
    /\ current_archive_path # ""
    /\ ~ current_archive_is_encrypted
    /\ gui_command' = Command("simple_unarchiver", current_archive_path,
                              {file_list_store[i].path : i \in rows})
    /\ NotLoaded
    /\ UNCHANGED <<phase, gui_disk>>
    /\ OtherThanGui

\* the file x of a session: the records of "a" and "ab", plain or after the
\* flag byte 0x00 or 0x01, whole or without its last bytes
SessionCuts == {0, 4}

SessionContents ==
    {SubSeq(c, 1, Len(c) - k) :
        c \in {Container(<<FileAB, FileA>>)}
              \cup {<<f>> \o Container(<<FileAB, FileA>>) : f \in {0, 1}},
        k \in SessionCuts}

InitSession ==
    /\ phase = "gui"
    /\ \E c \in SessionContents : gui_disk = ("x" :> c) @@ ("y" :> GuiOther)
    /\ file_list_store = <<>>
    /\ current_archive_is_encrypted = FALSE
    /\ current_archive_path = ""
    /\ gui_loads = <<>>
    /\ gui_command = NoCommand
    /\ IdleArgs /\ IdleCollect /\ IdleIo /\ IdleSha
    /\ IdleCipher /\ IdleFiles /\ IdleCodec /\ IdleUnar /\ IdleEnc /\ IdleDec

NextSession ==
    \/ \E archive_path \in GuiPaths \cup {"x2", "y2", NewArchive} :
          LoadArchiveContents(archive_path)
    \/ \E outcome \in {"crash", "no files", "files"}, its \in CreateSeqs :
          OnCreateArchive(outcome, its)
    \/ \E input_filename \in {"x", "y"}, pwd \in Passwords :
          OnEncryptArchive(input_filename, pwd)
    \/ \E pwd \in Passwords : OnExtractAll(pwd)
    \/ \E rows \in SUBSET (1..MaxRecords) : OnExtractSelected(rows)

SpecSession == InitSession /\ [][NextSession]_vars

\* what a listing of the archive file at archive_path shows on its own
Listed(archive_path) == load_archive_contents(gui_disk, <<>>, "", archive_path)

\* C25: whatever was opened, created or encrypted before, and whether or
\* not the loads succeeded, current_archive_is_encrypted says of the archive
\* at current_archive_path what a listing of that archive says, and Extract
\* All runs tzar_decrypt on an archive listed as encrypted and
\* simple_unarchiver on one listed as not encrypted.
C25_SessionConsistent ==
    /\ current_archive_path # "" =>
          current_archive_is_encrypted = Listed(current_archive_path).encrypted
    /\ gui_command.tool = "tzar_decrypt" => Listed(gui_command.archive).encrypted
    /\ (gui_command.tool = "simple_unarchiver" /\ gui_command.names = {}) =>
          ~ Listed(gui_command.archive).encrypted

\* the paths of the rows
PathsOf(store) == {store[i].path : i \in 1..Len(store)}

\* C26: while an archive is open, the rows of file_list_store are the rows
\* a listing of the archive at current_archive_path shows, also after a load
\* that failed, and every path Extract Selected hands to simple_unarchiver
\* is the path of a row of the archive it names.
C26_ListMatchesArchive ==
    /\ current_archive_path # "" =>
          file_list_store = Listed(current_archive_path).store
    /\ (gui_command.tool = "simple_unarchiver" /\ gui_command.names # {}) =>
          gui_command.names \subseteq PathsOf(Listed(gui_command.archive).store)

---------------------------------------------------------------------------
(* simple_unarchiver and tzar_decrypt on containers whose record paths     *)
(* need not be relative paths of plain names.                              *)

\* the file "../e", the file "/e" and the directory "../g"
FileUpE == Item(<<46, 46, 47, 101>>, "file", <<69>>, TRUE)
FileRootE == Item(<<47, 101>>, "file", <<69, 69>>, TRUE)
DirUpG == Item(<<46, 46, 47, 103>>, "dir", <<>>, TRUE)

ContainItems == {FileA, DirD, FileUpE, FileRootE, DirUpG}

\* a container that holds the records of its, as simple_archiver lays them
\* out, is at hand; the working directories hold nothing
InitContain ==
    /\ phase = "ready"
    /\ \E its \in SeqsUpTo(ContainItems, MaxItems) :
          /\ items = its
          /\ records = [i \in 1..Len(its) |-> RecordOf(its[i])]
          /\ written = Len(its)
          /\ tzar = Container(its)
    /\ cut = -1
    /\ extract_all = TRUE /\ files_to_extract = {} /\ u_pos = 0
    /\ u_fs = Surroundings /\ extracted_count = 0 /\ skipped_count = 0
    /\ u_exit = -1 /\ u_out = <<>>
    /\ d_password = [r \in Runs |-> <<>>]
    /\ decryption_key = [r \in Runs |-> <<>>]
    /\ d_pos = [r \in Runs |-> 0]
    /\ d_fs = [r \in Runs |-> Surroundings]
    /\ d_extracted = [r \in Runs |-> 0]
    /\ d_exit = [r \in Runs |-> -1]
    /\ d_out = [r \in Runs |-> <<>>]
    /\ IdleCipher /\ IdleCodec /\ IdleEnc /\ IdleMore

NextContain ==
    \/ UnarchiveStart({})
    \/ UnarchiveStep
    \/ UnarchiveEnd
    \/ \E pwd \in Passwords : EncryptStart(pwd)
    \/ EncryptStep
    \/ EncryptEnd
    \/ \E r \in Runs, pwd \in Passwords : DecryptStart(r, pwd)
    \/ \E r \in Runs : DecryptStep(r)
    \/ \E r \in Runs : DecryptEnd(r)

SpecContain == InitContain /\ [][NextContain]_vars

\* the places a pass has created or written that were not in the tree before
Made(fs) == DOMAIN fs \ DOMAIN Surroundings

\* the place is the directory base or lies below it
Inside(base, place) == Len(place) >= Len(base) /\ SubSeq(place, 1, Len(base)) = base

\* the place is the working directory or lies below it
InsideWorkingDir(place) == place = <<>> \/ place[1] \notin {ParentDir, RootDir}

\* C28: whatever the record paths of the container are, everything
\* simple_unarchiver creates or writes lies inside the working directory, and
\* everything tzar_decrypt creates or writes lies inside its output
\* directory.
C28_ExtractionContained ==
    /\ \A place \in Made(u_fs) : InsideWorkingDir(place)
    /\ \A r \in Runs : \A place \in Made(d_fs[r]) : Inside(output_base_path, place)

\* C12: an empty password makes tzar_encrypt and tzar_decrypt exit with
\* status 1 before any file I/O: the input is not opened, no key is derived,
\* and no output file or directory is created or truncated.
C12_EmptyPasswordRejected ==
    /\ (e_exit # -1 /\ password = <<>>) =>
          /\ e_exit = 1
          /\ encryption_key = <<>>
          /\ e_io = <<>> /\ tzar2 = <<>> /\ e_pos = 0
    /\ \A r \in Runs :
          (d_exit[r] # -1 /\ d_password[r] = <<>>) =>
              /\ d_exit[r] = 1
              /\ decryption_key[r] = <<>>
              /\ d_io[r] = <<>> /\ d_fs[r] = EmptyTree /\ d_pos[r] = 0
              /\ d_out[r] = <<>> /\ d_extracted[r] = 0

C12_Witness ==
    /\ e_exit = 0 /\ Len(tzar2) > 1
    /\ d_exit[1] = 1 /\ d_password[1] = <<>> /\ d_io[1] = <<>>
    /\ d_exit[2] = 0 /\ d_extracted[2] > 0

C12_WitnessEncrypt ==
    /\ phase = "done" /\ Len(tzar) > 0
    /\ e_exit = 1 /\ password = <<>> /\ e_io = <<>> /\ tzar2 = <<>>

\* C20: when tzar_encrypt ends with status 0 its output is the byte 1 and
\* then, for each record of the plain container in order, the length and
\* bytes of the path as they were, the length of the payload, and the
\* payload with byte i XORed with byte i mod 32 of the key, the count of i
\* starting again with every record.
C20_EncryptedLayout ==
    e_exit = 0 => tzar2 = Layout(records, Len(records), KeyOf[password])

C20_Witness ==
    /\ e_exit = 0
    /\ Len(records) = 3
    /\ Len(records[1].payload) > 1
    /\ Len(records[2].payload) = 0
    /\ Len(records[3].payload) > 0
    /\ tzar2 = Layout(records, 3, KeyOf[password])

===========================================================================
